---- MODULE Spec2Model ----
(***************************************************************************)
(* Federated search engine of aci_frontend/backend: input normalisation,   *)
(* per-source query execution and reconciliation (SOMPRD, CMPRD), fan-out  *)
(* consolidation and the chained SOMPRD -> CMPRD search.                   *)
(*                                                                         *)
(* Python str values are TLA+ strings (Len, SubSeq and \o act on them as   *)
(* on sequences of characters).  A cell of a result row is a tagged value: *)
(* None, S(text) or B(boolean), because a column may hold NULL.  A dict is *)
(* a function from its keys; a list is a sequence.                         *)
(***************************************************************************)
EXTENDS Integers, Sequences, FiniteSets, TLC

VARIABLES
    \* ---- process_search_request (service_manager.py) ----
    frontend_data,      \* the request dict handed to process_search_request
    pc,                 \* position inside process_search_request
    processed_params,   \* processed_params after pre-processing (or NoDict)
    results,            \* _execute_multi_database_search: <<database, result>> in insertion order
    chain,              \* locals of _execute_chained_search between its two queries
    final_result,       \* the dict returned to the caller (or NoDict)
    db_log,             \* what was asked of db_config / the cursors, in order
    backend,            \* rows each source's cursor returned (history, per database)
    \* ---- split_values_for_oracle_in_clause on its own ----
    sv_values, sv_chunk_size, sv_chunks,
    \* ---- SOMPRDQueries._reorder_results_by_input on its own ----
    ro_results, ro_input_values, ro_search_type, ro_output,
    \* ---- InputProcessor.process_search_params on its own ----
    np_search_data, np_output,
    \* ---- _apply_field_filters on its own ----
    ff_data, ff_selected_fields, ff_output,
    \* ---- _build_dynamic_filters of both query classes on their own ----
    cf_search_params, cf_chunk_size, cf_somprd, cf_cmprd

vars == <<frontend_data, pc, processed_params, results, chain, final_result,
          db_log, backend, sv_values, sv_chunk_size, sv_chunks,
          ro_results, ro_input_values, ro_search_type, ro_output,
          np_search_data, np_output, ff_data, ff_selected_fields, ff_output,
          cf_search_params, cf_chunk_size, cf_somprd, cf_cmprd>>

main_vars == <<frontend_data, pc, processed_params, results, chain,
               final_result, db_log, backend>>
sv_vars == <<sv_values, sv_chunk_size, sv_chunks>>
ro_vars == <<ro_results, ro_input_values, ro_search_type, ro_output>>
np_vars == <<np_search_data, np_output>>
ff_vars == <<ff_data, ff_selected_fields, ff_output>>
cf_vars == <<cf_search_params, cf_chunk_size, cf_somprd, cf_cmprd>>

(***************************************************************************)
(* Bounds of the model.                                                    *)
(***************************************************************************)
MaxValues == 5       \* longest value list handed to the chunking function
MaxChunk == 3        \* largest chunk_size tried besides the default
MaxRawRows == 2      \* most raw rows in a reconciliation input
MaxRows == 2         \* most rows a source's cursor returns for one query
MaxLines == 3        \* most lines in the raw text handed to the normaliser
MaxFields == 2       \* most selected fields handed to the projection

(***************************************************************************)
(* Python values and dicts.                                                *)
(***************************************************************************)
None == [t |-> "None"]
S(x) == [t |-> "str", s |-> x]
B(x) == [t |-> "bool", b |-> x]

\* a variable that holds no dict yet
NoDict == [unset |-> TRUE]

\* dict.get(k, default)
Get(d, k, default) == IF k \in DOMAIN d THEN d[k] ELSE default

\* dict.update(e) / {**d, **e}
Update(d, e) ==
    [k \in (DOMAIN d) \cup (DOMAIN e) |-> IF k \in DOMAIN e THEN e[k] ELSE d[k]]

\* str(cell): str(None) is the text "None"
str(v) == IF v = None THEN "None" ELSE v.s

Whitespace == {" ", "\n", "\t", "\r"}

RECURSIVE lstrip(_)
lstrip(s) ==
    IF Len(s) > 0 /\ SubSeq(s, 1, 1) \in Whitespace
    THEN lstrip(SubSeq(s, 2, Len(s)))
    ELSE s

RECURSIVE rstrip(_)
rstrip(s) ==
    IF Len(s) > 0 /\ SubSeq(s, Len(s), Len(s)) \in Whitespace
    THEN rstrip(SubSeq(s, 1, Len(s) - 1))
    ELSE s

\* str.strip()
strip(s) == rstrip(lstrip(s))

\* str.split('\n'): the pieces between line breaks, at least one piece
RECURSIVE split_lines(_)
split_lines(s) ==
    IF \E i \in 1..Len(s) : SubSeq(s, i, i) = "\n"
    THEN LET i == CHOOSE j \in 1..Len(s) :
                     /\ SubSeq(s, j, j) = "\n"
                     /\ \A k \in 1..(j - 1) : SubSeq(s, k, k) # "\n"
         IN  <<SubSeq(s, 1, i - 1)>> \o split_lines(SubSeq(s, i + 1, Len(s)))
    ELSE <<s>>

\* the elements of a list, as a set
Elems(l) == {l[i] : i \in 1..Len(l)}

\* a list without repeated elements
NoDuplicates(l) == \A i, j \in 1..Len(l) : l[i] = l[j] => i = j

\* all lists over S of length at most n
ListsUpTo(SetS, n) == UNION {[1..k -> SetS] : k \in 0..n}

(***************************************************************************)
(* input_processor.py                                                      *)
(***************************************************************************)
add_leading_zeros_protocolo(values) ==
    [i \in 1..Len(values) |-> "00" \o values[i]]

add_leading_zero_circuito(values) ==
    [i \in 1..Len(values) |-> "0" \o values[i]]

\* the loop of clean_and_split_input over the lines still to read
RECURSIVE clean_loop(_, _)
clean_loop(lines, cleaned_values) ==
    IF lines = <<>> THEN cleaned_values
    ELSE LET value == strip(Head(lines))
         IN  IF value # "" /\ value \notin Elems(cleaned_values)
             THEN clean_loop(Tail(lines), Append(cleaned_values, value))
             ELSE clean_loop(Tail(lines), cleaned_values)

\* a plausible slip: the lines are compared and kept without being trimmed
RECURSIVE clean_loop_untrimmed(_, _)
clean_loop_untrimmed(lines, cleaned_values) ==
    IF lines = <<>> THEN cleaned_values
    ELSE LET value == Head(lines)
         IN  IF strip(value) # "" /\ value \notin Elems(cleaned_values)
             THEN clean_loop_untrimmed(Tail(lines), Append(cleaned_values, value))
             ELSE clean_loop_untrimmed(Tail(lines), cleaned_values)

clean_and_split_untrimmed(raw_input) ==
    IF raw_input = "" \/ strip(raw_input) = "" THEN <<>>
    ELSE clean_loop_untrimmed(split_lines(strip(raw_input)), <<>>)

clean_and_split_input(raw_input) ==
    IF raw_input = "" \/ strip(raw_input) = "" THEN <<>>
    ELSE clean_loop(split_lines(strip(raw_input)), <<>>)

valid_types == {"Protocolo Algar SOM", "Circuito", "ID OS", "CTO",
                "OLT", "PON", "Fila", "Localidade"}

validate_search_type(search_type) ==
    [is_valid |-> search_type \in valid_types,
     search_type |-> search_type,
     message |-> IF search_type \in valid_types
                 THEN "Tipo de busca valido"
                 ELSE "Tipo '" \o search_type \o "' nao suportado"]

\* the default of split_values_for_oracle_in_clause's chunk_size
chunk_size_default == 1000

\* the loop "for i in range(0, len(values), chunk_size)", i counted from 0
RECURSIVE split_loop(_, _, _)
split_loop(values, chunk_size, i) ==
    IF i >= Len(values) THEN <<>>
    ELSE LET last == IF i + chunk_size < Len(values)
                     THEN i + chunk_size ELSE Len(values)
         IN  <<SubSeq(values, i + 1, last)>>
                 \o split_loop(values, chunk_size, i + chunk_size)

\* a plausible slip: the slice stops one element early
RECURSIVE split_loop_short(_, _, _)
split_loop_short(values, chunk_size, i) ==
    IF i >= Len(values) THEN <<>>
    ELSE LET last == IF i + chunk_size < Len(values)
                     THEN i + chunk_size - 1 ELSE Len(values)
         IN  <<SubSeq(values, i + 1, last)>>
                 \o split_loop_short(values, chunk_size, i + chunk_size)

split_values_short(values, chunk_size) ==
    IF values = <<>> THEN <<>> ELSE split_loop_short(values, chunk_size, 0)

split_values_for_oracle_in_clause(values, chunk_size) ==
    IF values = <<>> THEN <<>> ELSE split_loop(values, chunk_size, 0)

(***************************************************************************)
(* Insertion-ordered dict from text to row (results_map), as a list of     *)
(* <<key, row>> pairs in order of first insertion.                         *)
(***************************************************************************)
map_has(m, key) == \E i \in 1..Len(m) : m[i][1] = key

map_get(m, key) == m[CHOOSE i \in 1..Len(m) : m[i][1] = key][2]

\* m[key] = row: a present key keeps its place and takes the new row
map_set(m, key, row) ==
    IF map_has(m, key)
    THEN [i \in 1..Len(m) |-> IF m[i][1] = key THEN <<key, row>> ELSE m[i]]
    ELSE Append(m, <<key, row>>)

\* del m[key]
map_del(m, key) == SelectSeq(m, LAMBDA e : e[1] # key)

\* list(m.values())
map_values(m) == [i \in 1..Len(m) |-> m[i][2]]

\* "for result in results: value = str(result.get(order_field, '')).strip();
\*  if value: results_map[value] = result"
RECURSIVE build_results_map(_, _, _)
build_results_map(rows, order_field, m) ==
    IF rows = <<>> THEN m
    ELSE LET result == Head(rows)
             field_value == strip(str(Get(result, order_field, S(""))))
         IN  build_results_map(Tail(rows), order_field,
                 IF field_value # "" THEN map_set(m, field_value, result) ELSE m)

(***************************************************************************)
(* somprd_queries.py: reconciliation                                       *)
(***************************************************************************)
NOT_FOUND == "Cancelado/Fechado/NE"

somprd_minimal_template ==
    [PROTOCOLO |-> None, SERVICE_ORDER_ID |-> None, CIRCUITO |-> None,
     ATIVIDADE |-> S(NOT_FOUND), LOCALIDADE |-> None, SERVICO |-> None,
     DATA_CRIACAO |-> None, START_DATE |-> None,
     _source_database |-> S("SOMPRD")]

\* field_template: the keys of the first result with None, or the minimal one
field_template_of(rows) ==
    IF rows # <<>> THEN [key \in DOMAIN rows[1] |-> None]
    ELSE somprd_minimal_template

\* the final loop of _create_protocol_placeholders
RECURSIVE placeholders_loop(_, _, _)
placeholders_loop(input_protocols, results_map, field_template) ==
    IF input_protocols = <<>> THEN <<>>
    ELSE LET protocol == strip(Head(input_protocols))
             placeholder == Update(field_template,
                                [PROTOCOLO |-> S(protocol),
                                 ATIVIDADE |-> S(NOT_FOUND)])
         IN  <<IF map_has(results_map, protocol)
               THEN map_get(results_map, protocol)
               ELSE placeholder>>
             \o placeholders_loop(Tail(input_protocols), results_map,
                                  field_template)

\* a plausible slip: unmatched protocols are skipped instead of filled in
RECURSIVE placeholders_loop_skip(_, _, _)
placeholders_loop_skip(input_protocols, results_map, field_template) ==
    IF input_protocols = <<>> THEN <<>>
    ELSE LET protocol == strip(Head(input_protocols))
         IN  (IF map_has(results_map, protocol)
              THEN <<map_get(results_map, protocol)>>
              ELSE <<>>)
             \o placeholders_loop_skip(Tail(input_protocols), results_map,
                                       field_template)

create_protocol_placeholders_skip(rows, input_protocols, order_field) ==
    placeholders_loop_skip(input_protocols,
                           build_results_map(rows, order_field, <<>>),
                           field_template_of(rows))

create_protocol_placeholders(rows, input_protocols, order_field) ==
    placeholders_loop(input_protocols,
                      build_results_map(rows, order_field, <<>>),
                      field_template_of(rows))

\* the loop of _reorder_without_placeholders: <<emitted rows, map left over>>
RECURSIVE reorder_loop(_, _, _)
reorder_loop(input_values, results_map, reordered_results) ==
    IF input_values = <<>> THEN <<reordered_results, results_map>>
    ELSE LET input_value == strip(Head(input_values))
         IN  IF map_has(results_map, input_value)
             THEN reorder_loop(Tail(input_values),
                               map_del(results_map, input_value),
                               Append(reordered_results,
                                      map_get(results_map, input_value)))
             ELSE reorder_loop(Tail(input_values), results_map,
                               reordered_results)

\* a reordering that emits the rows of the map in the order of the fetch
reorder_without_placeholders_unordered(rows, input_values, order_field) ==
    map_values(build_results_map(rows, order_field, <<>>))

reorder_without_placeholders(rows, input_values, order_field) ==
    LET walked == reorder_loop(input_values,
                               build_results_map(rows, order_field, <<>>),
                               <<>>)
    IN  walked[1] \o map_values(walked[2])

somprd_order_field_mapping ==
    [t \in {"Protocolo Algar SOM", "Circuito", "ID OS", "Localidade"} |->
        CASE t = "Protocolo Algar SOM" -> "PROTOCOLO"
          [] t = "Circuito" -> "CIRCUITO"
          [] t = "ID OS" -> "SERVICE_ORDER_ID"
          [] t = "Localidade" -> "LOCALIDADE"]

somprd_reorder_results_by_input(rows, input_values, search_type) ==
    IF input_values = <<>> THEN rows
    ELSE IF search_type \notin DOMAIN somprd_order_field_mapping THEN rows
    ELSE IF search_type = "Protocolo Algar SOM"
         THEN create_protocol_placeholders(rows, input_values,
                  somprd_order_field_mapping[search_type])
         ELSE reorder_without_placeholders(rows, input_values,
                  somprd_order_field_mapping[search_type])

(***************************************************************************)
(* somprd_queries.py and cmprd_queries.py: filter compilation.  SQL text is *)
(* modelled as the sequence of its tokens (' '.join and string             *)
(* concatenation are concatenation of token lists), a placeholder :name as *)
(* the token ":name"; the params dict is a function from names to values.  *)
(* The chunk size is the default of split_values_for_oracle_in_clause; it  *)
(* is a parameter here so that lists longer than one chunk can be compiled *)
(* at small sizes.                                                         *)
(***************************************************************************)
EmptyDict == <<>>

bind(param_name) == ":" \o param_name

\* ', '.join(param_names)
RECURSIVE comma_join(_)
comma_join(param_names) ==
    IF Len(param_names) <= 1 THEN param_names
    ELSE <<Head(param_names), ",">> \o comma_join(Tail(param_names))

\* ' OR '.join(or_clauses)
RECURSIVE or_join(_)
or_join(or_clauses) ==
    IF or_clauses = <<>> THEN <<>>
    ELSE IF Len(or_clauses) = 1 THEN or_clauses[1]
    ELSE or_clauses[1] \o <<"OR">> \o or_join(Tail(or_clauses))

\* "for i, value in enumerate(chunk): params[param_name] = value", the names
\* being stem followed by i+1
RECURSIVE bind_chunk(_, _, _, _)
bind_chunk(chunk, stem, i, params) ==
    IF i > Len(chunk) THEN params
    ELSE bind_chunk(chunk, stem, i + 1,
                    Update(params, (stem \o ToString(i)) :> chunk[i]))

\* the placeholders of a chunk, in order
chunk_param_names(chunk, stem) ==
    [i \in 1..Len(chunk) |-> bind(stem \o ToString(i))]

\* "field_name IN (:p1, :p2, ...)"
in_fragment(field_name, chunk, stem) ==
    <<field_name, "IN", "(">> \o comma_join(chunk_param_names(chunk, stem))
        \o <<")">>

\* the loop over the chunks of the multi-chunk case
RECURSIVE bind_chunks(_, _, _, _)
bind_chunks(chunks, param_prefix, chunk_idx, params) ==
    IF chunk_idx > Len(chunks) THEN params
    ELSE bind_chunks(chunks, param_prefix, chunk_idx + 1,
             bind_chunk(chunks[chunk_idx],
                        param_prefix \o "_c" \o ToString(chunk_idx) \o "_",
                        1, params))

\* a builder that names the parameters of every chunk alike
build_in_clause_same_names(field_name, values, param_prefix, chunk_size) ==
    IF values = <<>> THEN [clause |-> <<>>, params |-> EmptyDict]
    ELSE
    LET chunks == split_values_for_oracle_in_clause(values, chunk_size)
        stem == param_prefix \o "_"
        RECURSIVE bind_all(_, _)
        bind_all(idx, params) ==
            IF idx > Len(chunks) THEN params
            ELSE bind_all(idx + 1, bind_chunk(chunks[idx], stem, 1, params))
    IN  IF Len(chunks) = 1
        THEN [clause |-> <<"AND">> \o in_fragment(field_name, chunks[1], stem),
              params |-> bind_chunk(chunks[1], stem, 1, EmptyDict)]
        ELSE [clause |->
                  <<"AND", "(">>
                      \o or_join([c \in 1..Len(chunks) |->
                                     in_fragment(field_name, chunks[c], stem)])
                      \o <<")">>,
              params |-> bind_all(1, EmptyDict)]

\* _build_in_clause_with_chunks (the same in both query classes)
build_in_clause_with_chunks(field_name, values, param_prefix, chunk_size) ==
    IF values = <<>> THEN [clause |-> <<>>, params |-> EmptyDict]
    ELSE
    LET chunks == split_values_for_oracle_in_clause(values, chunk_size)
    IN  IF Len(chunks) = 1
        THEN [clause |->
                  <<"AND">> \o in_fragment(field_name, chunks[1],
                                           param_prefix \o "_"),
              params |-> bind_chunk(chunks[1], param_prefix \o "_", 1, EmptyDict)]
        ELSE [clause |->
                  <<"AND", "(">>
                      \o or_join([c \in 1..Len(chunks) |->
                             in_fragment(field_name, chunks[c],
                                 param_prefix \o "_c" \o ToString(c) \o "_")])
                      \o <<")">>,
              params |-> bind_chunks(chunks, param_prefix, 1, EmptyDict)]

\* where_clauses.append(clause); params.update(clause_params)
add_filter(filters, clause, params) ==
    [clause |-> filters.clause \o clause,
     params |-> Update(filters.params, params)]

NoFilter == [clause |-> <<>>, params |-> EmptyDict]

\* "if value:" on an optional text
truthy(v) == v # None /\ v.s # ""

\* a queue lookup that compiles the activity predicate of every queue alone
somprd_queue_filter_activity_only(fila_selecionada) ==
    IF fila_selecionada = "Massiva"
    THEN [clause |-> <<"AND", "ATIVIDADE", "=", ":atividade_massiva">>,
          params |-> "atividade_massiva" :> "SUSPEITA DE MASSIVA"]
    ELSE IF fila_selecionada = "Despacho"
    THEN [clause |-> <<"AND", "ATIVIDADE", "=", ":atividade_despacho">>,
          params |-> "atividade_despacho" :> "DESPACHAR"]
    ELSE IF fila_selecionada = "Triagem"
    THEN [clause |-> <<"AND", "ATIVIDADE", "LIKE", ":atividade_triagem">>,
          params |-> "atividade_triagem" :> "%TRIAGEM%"]
    ELSE [clause |-> <<>>, params |-> <<>>]

\* SOMPRD: the predicate pair of a named queue
somprd_queue_filter(fila_selecionada) ==
    IF fila_selecionada = "Massiva"
    THEN [clause |-> <<"AND", "ATIVIDADE", "=", ":atividade_massiva">>,
          params |-> "atividade_massiva" :> "SUSPEITA DE MASSIVA"]
    ELSE IF fila_selecionada = "Despacho"
    THEN [clause |-> <<"AND", "ATIVIDADE", "=", ":atividade_despacho",
                       "AND", "SERVICO", "=", ":servico_despacho">>,
          params |-> ("atividade_despacho" :> "DESPACHAR")
                         @@ ("servico_despacho" :> "CORRETIVA DADOS")]
    ELSE IF fila_selecionada = "Triagem"
    THEN [clause |-> <<"AND", "ATIVIDADE", "LIKE", ":atividade_triagem",
                       "AND", "SERVICO", "=", ":servico_triagem">>,
          params |-> ("atividade_triagem" :> "%TRIAGEM%")
                         @@ ("servico_triagem" :> "CORRETIVA DADOS")]
    ELSE NoFilter

\* SOMPRD _build_dynamic_filters: the if/elif chain on the search type
somprd_type_filter(search_params, chunk_size) ==
    LET search_type == Get(search_params, "search_type", "")
        values == Get(search_params, "processed_values", <<>>)
    IN  IF search_type = "Protocolo Algar SOM" /\ values # <<>>
        THEN build_in_clause_with_chunks("PROTOCOLO", values, "protocolo",
                                         chunk_size)
        ELSE IF search_type = "Circuito" /\ values # <<>>
        THEN build_in_clause_with_chunks("CIRCUITO", values, "circuito",
                                         chunk_size)
        ELSE IF search_type = "ID OS" /\ values # <<>>
        THEN build_in_clause_with_chunks("SERVICE_ORDER_ID", values,
                                         "service_order", chunk_size)
        ELSE IF search_type = "Localidade" /\ values # <<>>
        THEN build_in_clause_with_chunks("LOCALIDADE", values, "localidade",
                                         chunk_size)
        ELSE IF search_type = "Fila"
        THEN somprd_queue_filter(Get(search_params, "fila_value", ""))
        ELSE NoFilter

\* SOMPRD _build_dynamic_filters
somprd_build_dynamic_filters(search_params, chunk_size) ==
    LET typed == somprd_type_filter(search_params, chunk_size)
        data_inicio == Get(search_params, "data_inicio", None)
        data_inicio_fila == Get(search_params, "data_inicio_fila", None)
        dated ==
            IF truthy(data_inicio)
            THEN add_filter(typed,
                     <<"AND", "DATA_CRIACAO", "BETWEEN", "TO_DATE", "(",
                       ":data_inicio", ",", "'DD/MM/YYYY'", ")", "AND",
                       "SYSDATE">>,
                     "data_inicio" :> data_inicio.s)
            ELSE typed
        dated_fila ==
            IF truthy(data_inicio_fila)
            THEN add_filter(dated,
                     <<"AND", "START_DATE", "BETWEEN", "TO_DATE", "(",
                       ":data_inicio_fila", ",", "'DD/MM/YYYY'", ")", "AND",
                       "SYSDATE">>,
                     "data_inicio_fila" :> data_inicio_fila.s)
            ELSE dated
    IN  IF Get(search_params, "apenas_corretiva", FALSE)
        THEN add_filter(dated_fila,
                 <<"AND", "SERVICO", "=", ":servico_corretiva">>,
                 "servico_corretiva" :> "CORRETIVA DADOS")
        ELSE dated_fila

\* CMPRD: the column of the node predicate of a PON filter
cmprd_olt_clause(olt_type) ==
    IF olt_type = "nome" THEN <<"AND", "OLT", "=", ":olt_value">>
    ELSE IF olt_type = "gerencia"
    THEN <<"AND", "NOME_OLT_GERENCIA", "=", ":olt_value">>
    ELSE IF olt_type = "ip" THEN <<"AND", "IP_DADOS_OLT", "=", ":olt_value">>
    ELSE IF olt_type = "vlan" THEN <<"AND", "OUTER_VLAN", "=", ":olt_value">>
    ELSE <<>>

\* CMPRD: the PON branch
cmprd_pon_filter(search_params) ==
    LET pon_info == Get(search_params, "pon_info", EmptyDict)
        pon_value == Get(pon_info, "shelf_slot_porta", "")
        olt_type == Get(pon_info, "olt_type", "nome")
        olt_value == Get(pon_info, "olt_value", "")
    IN  IF pon_value # "" /\ olt_value # ""
        THEN [clause |-> <<"AND", "SHELF_SLOT_PORTA", "=", ":pon_value">>
                             \o cmprd_olt_clause(olt_type),
              params |-> ("pon_value" :> pon_value)
                             @@ ("olt_value" :> olt_value)]
        ELSE NoFilter

\* CMPRD _build_dynamic_filters: the if/elif chain on the search type
cmprd_type_filter(search_params, chunk_size) ==
    LET search_type == Get(search_params, "search_type", "")
        values == Get(search_params, "processed_values", <<>>)
    IN  IF search_type = "Circuito" /\ values # <<>>
        THEN build_in_clause_with_chunks("CIRCUITO", values, "circuito",
                                         chunk_size)
        ELSE IF search_type = "CTO" /\ values # <<>>
        THEN build_in_clause_with_chunks("CTO", values, "cto", chunk_size)
        ELSE IF search_type = "Localidade" /\ values # <<>>
        THEN build_in_clause_with_chunks("LOCALIDADE", values, "localidade",
                                         chunk_size)
        ELSE IF search_type = "VLAN Outer" /\ values # <<>>
        THEN build_in_clause_with_chunks("OUTER_VLAN", values, "vlan_outer",
                                         chunk_size)
        ELSE IF search_type = "IP da OLT" /\ values # <<>>
        THEN build_in_clause_with_chunks("IP_DADOS_OLT", values, "ip_olt",
                                         chunk_size)
        ELSE IF search_type = "OLT" /\ values # <<>>
        THEN build_in_clause_with_chunks("OLT", values, "olt_nome", chunk_size)
        ELSE IF search_type = "PON"
        THEN cmprd_pon_filter(search_params)
        ELSE NoFilter

\* CMPRD _build_dynamic_filters
cmprd_build_dynamic_filters(search_params, chunk_size) ==
    LET typed == cmprd_type_filter(search_params, chunk_size)
    IN  IF Get(search_params, "apenas_corretiva", FALSE)
        THEN add_filter(typed, <<"AND", "TIPO", "=", ":tipo_corretiva">>,
                        "tipo_corretiva" :> "CORRETIVA DADOS")
        ELSE typed

(***************************************************************************)
(* What the Oracle cursor hands back (the excluded connection layer): a    *)
(* failed connect, a failed execute, or rows of the queried view.  A view  *)
(* row gives a cell for every column the SELECT list can name; the cursor  *)
(* returns the cells of the selected columns.                              *)
(***************************************************************************)
CONNECT_ERROR == "ORA-12541"
EXECUTE_ERROR == "ORA-00942"

ConnectFails == [kind |-> "connect_error", error |-> CONNECT_ERROR]
ExecuteFails == [kind |-> "execute_error", error |-> EXECUTE_ERROR]
Returns(rows) == [kind |-> "rows", rows |-> rows]

\* cursor.execute does not return: no call_timeout is set on the connection
\* and CONNECTION_TIMEOUT is read by nothing
NoAnswer == [kind |-> "no_answer"]

\* selected_fields given as a number: truthy, and no list to iterate
AnInt == [i \in {0} |-> "int"]

INT_NOT_ITERABLE == "'int' object is not iterable"

\* _build_dynamic_query raises on "for field in selected_fields", after the
\* connection was obtained and before any cursor is opened
CompileFails == [kind |-> "compile_error", error |-> INT_NOT_ITERABLE]

compile_raises(search_params) ==
    Get(search_params, "selected_fields", <<>>) = AnInt

\* an execute_search_query whose connection is released on the normal path
\* only
db_events_no_finally(database, outcome) ==
    IF outcome.kind = "connect_error"
    THEN <<[op |-> "get_connection", database |-> database, ok |-> FALSE]>>
    ELSE IF outcome.kind = "no_answer"
    THEN <<[op |-> "get_connection", database |-> database, ok |-> TRUE],
           [op |-> "execute_pending", database |-> database, ok |-> FALSE]>>
    ELSE IF outcome.kind = "compile_error"
    THEN <<[op |-> "get_connection", database |-> database, ok |-> TRUE]>>
    ELSE IF outcome.kind = "execute_error"
    THEN <<[op |-> "get_connection", database |-> database, ok |-> TRUE],
           [op |-> "execute", database |-> database, ok |-> FALSE]>>
    ELSE <<[op |-> "get_connection", database |-> database, ok |-> TRUE],
           [op |-> "execute", database |-> database, ok |-> TRUE],
           [op |-> "release_connection", database |-> database, ok |-> TRUE]>>

\* the calls an execute_search_query makes on db_config and the cursor
db_events(database, outcome) ==
    IF outcome.kind = "connect_error"
    THEN <<[op |-> "get_connection", database |-> database, ok |-> FALSE]>>
    ELSE IF outcome.kind = "compile_error"
    THEN <<[op |-> "get_connection", database |-> database, ok |-> TRUE],
           [op |-> "release_connection", database |-> database, ok |-> TRUE]>>
    ELSE IF outcome.kind = "no_answer"
    THEN <<[op |-> "get_connection", database |-> database, ok |-> TRUE],
           [op |-> "execute_pending", database |-> database, ok |-> FALSE]>>
    ELSE <<[op |-> "get_connection", database |-> database, ok |-> TRUE],
           [op |-> "execute", database |-> database,
            ok |-> outcome.kind = "rows"],
           [op |-> "release_connection", database |-> database, ok |-> TRUE]>>

\* dict(zip(column_names, row)) for every fetched row
format_rows(column_names, view_rows) ==
    [i \in 1..Len(view_rows) |->
        [c \in Elems(column_names) |-> view_rows[i][c]]]

\* the except branch of execute_search_query (both sources)
query_failed(e) ==
    [success |-> FALSE, data |-> <<>>, columns |-> <<>>, count |-> 0,
     error |-> e, message |-> "Erro na execucao da consulta: " \o e]

(***************************************************************************)
(* somprd_queries.py: query building and execution.  The result dict is    *)
(* modelled without execution_time (a clock reading) and search_params     *)
(* (an echo of the argument).                                              *)
(***************************************************************************)
\* field_mapping of _build_dynamic_query, as the column name(s) that
\* cursor.description reports for each mapped SELECT expression
somprd_field_mapping ==
    [f \in {"id_os", "protocolo", "circuito", "subscricao", "localidade",
            "fila_atual", "tipo_de_os", "data_de_criacao",
            "data_de_entrada_na_fila"} |->
        CASE f = "id_os" -> "SERVICE_ORDER_ID"
          [] f = "protocolo" -> "PROTOCOLO"
          [] f = "circuito" -> "CIRCUITO"
          [] f = "subscricao" -> "SUBSCRICAO"
          [] f = "localidade" -> "LOCALIDADE"
          [] f = "fila_atual" -> "FILA_ATUAL"
          [] f = "tipo_de_os" -> "TIPO"
          [] f = "data_de_criacao" -> "DATA_CRIACAO"
          [] f = "data_de_entrada_na_fila" -> "DATA_ENTRADA_FILA"]

somprd_default_fields ==
    <<"SERVICE_ORDER_ID", "PROTOCOLO", "CIRCUITO", "FILA_ATUAL",
      "LOCALIDADE", "TIPO", "DATA_CRIACAO", "DATA_ENTRADA_FILA">>

\* the mapped fields in the order selected, one column per recognised field
RECURSIVE map_selected_fields(_, _)
map_selected_fields(selected_fields, field_mapping) ==
    IF selected_fields = <<>> THEN <<>>
    ELSE (IF Head(selected_fields) \in DOMAIN field_mapping
          THEN <<field_mapping[Head(selected_fields)]>> ELSE <<>>)
         \o map_selected_fields(Tail(selected_fields), field_mapping)

\* the columns of the query _build_dynamic_query builds
somprd_build_dynamic_query(selected_fields) ==
    LET selected_db_fields ==
            map_selected_fields(selected_fields, somprd_field_mapping)
    IN  IF selected_db_fields = <<>> THEN somprd_default_fields
        ELSE selected_db_fields

\* "if formatted_results and search_params.get('processed_values'):
\*      formatted_results = self._reorder_results_by_input(...)"
somprd_reconcile(formatted_results, search_params) ==
    IF formatted_results # <<>>
       /\ Get(search_params, "processed_values", <<>>) # <<>>
    THEN somprd_reorder_results_by_input(formatted_results,
             Get(search_params, "processed_values", <<>>),
             Get(search_params, "search_type", ""))
    ELSE formatted_results

somprd_execute_search_query(search_params, outcome) ==
    IF outcome.kind # "rows" THEN query_failed(outcome.error)
    ELSE
    LET column_names ==
            somprd_build_dynamic_query(Get(search_params, "selected_fields", <<>>))
        fetched == outcome.rows
        formatted_results ==
            somprd_reconcile(format_rows(column_names, fetched), search_params)
    IN  IF /\ Get(search_params, "search_type", "") = "ID OS"
           /\ Len(fetched) = 0
           /\ Len(Get(search_params, "processed_values", <<>>)) > 0
        THEN [success |-> TRUE, data |-> <<>>, columns |-> column_names,
              count |-> 0,
              message |-> "A OS nao foi encontrada e pode estar cancelada ou fechada."]
        ELSE IF Len(formatted_results) = 0
        THEN [success |-> TRUE, data |-> <<>>, columns |-> column_names,
              count |-> 0,
              message |-> "OS pode estar fechada/cancelada/NE"]
        ELSE [success |-> TRUE, data |-> formatted_results,
              columns |-> column_names, count |-> Len(fetched),
              message |-> "Consulta executada com sucesso. "
                          \o ToString(Len(fetched))
                          \o " registro(s) encontrado(s)."]

(***************************************************************************)
(* cmprd_queries.py                                                        *)
(***************************************************************************)
\* field_mapping of _build_dynamic_query, as the column names reported
cmprd_field_mapping ==
    [f \in {"cto", "porta_da_cto", "status_(ocupado,_vago,_etc)", "olt",
            "nome_da_gerencia_da_olt", "ip_da_olt", "shelf/slot/porta",
            "tecnologia", "serial", "vlan's", "localidade", "estacao"} |->
        CASE f = "cto" -> <<"CTO">>
          [] f = "porta_da_cto" -> <<"PORTA_CTO">>
          [] f = "status_(ocupado,_vago,_etc)" -> <<"STATUS_PORTA_CTO">>
          [] f = "olt" -> <<"OLT">>
          [] f = "nome_da_gerencia_da_olt" -> <<"NOME_OLT_GERENCIA">>
          [] f = "ip_da_olt" -> <<"IP_DADOS_OLT">>
          [] f = "shelf/slot/porta" -> <<"SHELF_SLOT_PORTA">>
          [] f = "tecnologia" -> <<"TECNOLOGIA">>
          [] f = "serial" -> <<"SERIAL">>
          [] f = "vlan's" -> <<"OUTER_VLAN", "INNER_VLAN">>
          [] f = "localidade" -> <<"LOCALIDADE">>
          [] f = "estacao" -> <<"ESTACAO">>]

cmprd_default_fields ==
    <<"CTO", "PORTA_CTO", "STATUS_PORTA_CTO", "SHELF_SLOT_PORTA",
      "LOCALIDADE", "ESTACAO", "TECNOLOGIA", "OLT", "NOME_OLT_GERENCIA",
      "IP_DADOS_OLT", "OUTER_VLAN", "INNER_VLAN">>

RECURSIVE flatten(_)
flatten(lists) ==
    IF lists = <<>> THEN <<>> ELSE Head(lists) \o flatten(Tail(lists))

cmprd_build_dynamic_query(selected_fields) ==
    LET selected_db_fields ==
            flatten(map_selected_fields(selected_fields, cmprd_field_mapping))
    IN  IF selected_db_fields = <<>> THEN cmprd_default_fields
        ELSE selected_db_fields

cmprd_order_field_mapping ==
    [t \in {"Circuito", "CTO", "Localidade", "VLAN Outer", "IP da OLT", "OLT"} |->
        CASE t = "Circuito" -> "CIRCUITO"
          [] t = "CTO" -> "CTO"
          [] t = "Localidade" -> "LOCALIDADE"
          [] t = "VLAN Outer" -> "OUTER_VLAN"
          [] t = "IP da OLT" -> "IP_DADOS_OLT"
          [] t = "OLT" -> "OLT"]

cmprd_reorder_results_by_input(rows, input_values, search_type) ==
    IF rows = <<>> \/ input_values = <<>> THEN rows
    ELSE IF search_type \notin DOMAIN cmprd_order_field_mapping THEN rows
    ELSE LET walked ==
                 reorder_loop(input_values,
                     build_results_map(rows,
                         cmprd_order_field_mapping[search_type], <<>>),
                     <<>>)
         IN  walked[1] \o map_values(walked[2])

cmprd_execute_search_query(search_params, outcome) ==
    IF outcome.kind # "rows" THEN query_failed(outcome.error)
    ELSE
    LET column_names ==
            cmprd_build_dynamic_query(Get(search_params, "selected_fields", <<>>))
        fetched == outcome.rows
        tagged == [i \in 1..Len(fetched) |->
                      Update(format_rows(column_names, fetched)[i],
                             [_source_database |-> S("CMPRD")])]
        formatted_results ==
            IF tagged # <<>> /\ Get(search_params, "processed_values", <<>>) # <<>>
            THEN cmprd_reorder_results_by_input(tagged,
                     Get(search_params, "processed_values", <<>>),
                     Get(search_params, "search_type", ""))
            ELSE tagged
    IN  IF Len(formatted_results) = 0
        THEN [success |-> TRUE, data |-> <<>>, columns |-> column_names,
              count |-> 0,
              message |-> "Nenhum registro encontrado no Connect Master."]
        ELSE [success |-> TRUE, data |-> formatted_results,
              columns |-> column_names, count |-> Len(fetched),
              message |-> "Consulta executada com sucesso. "
                          \o ToString(Len(fetched))
                          \o " registro(s) encontrado(s)."]

(***************************************************************************)
(* service_manager.py                                                      *)
(***************************************************************************)
L(list) == [t |-> "list", l |-> list]

\* sep.join(list)
RECURSIVE join(_, _)
join(sep, list) ==
    IF list = <<>> THEN ""
    ELSE IF Len(list) = 1 THEN list[1]
    ELSE list[1] \o sep \o join(sep, Tail(list))

\* sub in s
Contains(sub, s) ==
    \E i \in 1..(Len(s) - Len(sub) + 1) : SubSeq(s, i, i + Len(sub) - 1) = sub

upper_char(c) ==
    CASE c = "a" -> "A" [] c = "b" -> "B" [] c = "c" -> "C" [] c = "d" -> "D"
      [] c = "e" -> "E" [] c = "f" -> "F" [] c = "g" -> "G" [] c = "h" -> "H"
      [] c = "i" -> "I" [] c = "j" -> "J" [] c = "k" -> "K" [] c = "l" -> "L"
      [] c = "m" -> "M" [] c = "n" -> "N" [] c = "o" -> "O" [] c = "p" -> "P"
      [] c = "q" -> "Q" [] c = "r" -> "R" [] c = "s" -> "S" [] c = "t" -> "T"
      [] c = "u" -> "U" [] c = "v" -> "V" [] c = "w" -> "W" [] c = "x" -> "X"
      [] c = "y" -> "Y" [] c = "z" -> "Z" [] OTHER -> c

\* str.upper()
RECURSIVE upper(_)
upper(s) ==
    IF s = "" THEN ""
    ELSE upper_char(SubSeq(s, 1, 1)) \o upper(SubSeq(s, 2, Len(s)))

\* the dict process_search_params returns for a de-duplicated list, the list
\* it pads and the two transformation tests
padded_params(search_type, values, padded, protocolo_zeros, circuito_zero) ==
    LET processed_values ==
            IF protocolo_zeros THEN add_leading_zeros_protocolo(padded)
            ELSE IF circuito_zero THEN add_leading_zero_circuito(padded)
            ELSE padded
    IN  IF values = <<>>
        THEN [processed_values |-> <<>>, search_type |-> search_type,
              error |-> "Nenhum valor valido fornecido"]
        ELSE [processed_values |-> processed_values,
              original_values |-> values,
              search_type |-> search_type,
              count |-> Len(processed_values),
              transformations_applied |->
                  [protocolo_zeros |-> protocolo_zeros,
                   circuito_zero |-> circuito_zero]]

\* a plausible slip: the lines are padded as typed, duplicates included
process_search_params_all_lines(search_data) ==
    LET search_type == strip(Get(search_data, "search_type", ""))
        raw_values == Get(search_data, "values", "")
        lines == split_lines(strip(raw_values))
        typed == SelectSeq([i \in 1..Len(lines) |-> strip(lines[i])],
                           LAMBDA v : v # "")
    IN  padded_params(search_type, clean_and_split_input(raw_values), typed,
                      Get(search_data, "add_zeros_protocolo", FALSE)
                      /\ Contains("Protocolo", search_type),
                  Get(search_data, "add_zero_circuito", FALSE)
                      /\ Contains("Circuito", search_type))

\* a plausible slip: the type name is compared for equality
process_search_params_exact(search_data) ==
    LET search_type == strip(Get(search_data, "search_type", ""))
        values == clean_and_split_input(Get(search_data, "values", ""))
    IN  padded_params(search_type, values, values,
                  Get(search_data, "add_zeros_protocolo", FALSE)
                      /\ search_type = "Protocolo",
                  Get(search_data, "add_zero_circuito", FALSE)
                      /\ search_type = "Circuito")

\* InputProcessor.process_search_params
process_search_params(search_data) ==
    LET search_type == strip(Get(search_data, "search_type", ""))
        raw_values == Get(search_data, "values", "")
        values == clean_and_split_input(raw_values)
        protocolo_zeros == Get(search_data, "add_zeros_protocolo", FALSE)
                           /\ Contains("Protocolo", search_type)
        circuito_zero == Get(search_data, "add_zero_circuito", FALSE)
                         /\ Contains("Circuito", search_type)
        processed_values ==
            IF protocolo_zeros THEN add_leading_zeros_protocolo(values)
            ELSE IF circuito_zero THEN add_leading_zero_circuito(values)
            ELSE values
    IN  IF values = <<>>
        THEN [processed_values |-> <<>>, search_type |-> search_type,
              error |-> "Nenhum valor valido fornecido"]
        ELSE [processed_values |-> processed_values,
              original_values |-> values,
              search_type |-> search_type,
              count |-> Len(processed_values),
              transformations_applied |->
                  [protocolo_zeros |-> protocolo_zeros,
                   circuito_zero |-> circuito_zero]]

\* a plausible slip: the check that values are present is left out
validate_search_request_no_values(data) ==
    IF "search_type" \notin DOMAIN data \/ data["search_type"] = ""
    THEN [is_valid |-> FALSE,
          message |-> "Campos obrigatorios ausentes: search_type",
          error |-> "MISSING_REQUIRED_FIELDS"]
    ELSE IF ~validate_search_type(data["search_type"]).is_valid
    THEN [is_valid |-> FALSE,
          message |-> validate_search_type(data["search_type"]).message,
          error |-> "INVALID_SEARCH_TYPE"]
    ELSE [is_valid |-> TRUE, message |-> "Dados validos"]

validate_search_request(data) ==
    IF "search_type" \notin DOMAIN data \/ data["search_type"] = ""
    THEN [is_valid |-> FALSE,
          message |-> "Campos obrigatorios ausentes: search_type",
          error |-> "MISSING_REQUIRED_FIELDS"]
    ELSE IF ~validate_search_type(data["search_type"]).is_valid
    THEN [is_valid |-> FALSE,
          message |-> validate_search_type(data["search_type"]).message,
          error |-> "INVALID_SEARCH_TYPE"]
    ELSE IF data["search_type"] # "Fila" /\ strip(Get(data, "values", "")) = ""
    THEN [is_valid |-> FALSE,
          message |-> "Valores de busca sao obrigatorios para este tipo de consulta",
          error |-> "MISSING_SEARCH_VALUES"]
    ELSE [is_valid |-> TRUE, message |-> "Dados validos"]

\* an except branch that reports nothing
internal_error_unreported(e) ==
    [success |-> TRUE, message |-> "", data |-> <<>>, total_records |-> 0]

\* the except branch of process_search_request: the result returned for any
\* exception raised inside the handler
internal_error(e) ==
    [success |-> FALSE,
     message |-> "Erro interno no processamento da busca",
     data |-> <<>>,
     error |-> e,
     total_records |-> 0]

\* a request whose selected_systems is None: a value that is no list
NoneList == [i \in {0} |-> "None"]

\* str(e) of the TypeError raised by '"SOMPRD" in None'
NOT_ITERABLE == "argument of type 'NoneType' is not iterable"

\* "Adicionar parametros extras do frontend": processed_params.update({...})
extra_params(data) ==
    [selected_systems |-> Get(data, "selected_systems", <<"SOMPRD">>),
     selected_fields |-> Get(data, "selected_fields", <<>>),
     fila_value |-> Get(data, "fila_value", ""),
     data_inicio |-> Get(data, "data_inicio", None),
     data_inicio_fila |-> Get(data, "data_inicio_fila", None),
     apenas_corretiva |-> Get(data, "apenas_corretiva", FALSE)]

\* final_result.update({...}) at the end of process_search_request, without
\* the two clock readings
with_metadata(result, params) ==
    Update(result,
        [input_summary |->
            [search_type |-> Get(params, "search_type", None),
             value_count |-> Get(params, "count", 0),
             transformations |-> Get(params, "transformations_applied", <<>>)]])

somprd_selected(selected_systems) ==
    "SOMPRD" \in Elems(selected_systems) \/ "Algar SOM" \in Elems(selected_systems)

cmprd_selected(selected_systems) ==
    "CMPRD" \in Elems(selected_systems)
        \/ "Connect Master" \in Elems(selected_systems)

frontend_to_db_mapping ==
    [f \in {"id_os", "protocolo", "circuito", "subscricao", "localidade",
            "fila_atual", "tipo_de_os", "data_de_criacao",
            "data_de_entrada_na_fila"} |-> somprd_field_mapping[f]]

\* a plausible slip: a record left with the source tag only is not restored
apply_field_filters_no_fallback(data, selected_fields) ==
    IF data = <<>> \/ selected_fields = <<>> THEN data
    ELSE
    LET keep == {"_source_database"} \cup
                {IF selected_fields[i] \in DOMAIN frontend_to_db_mapping
                 THEN frontend_to_db_mapping[selected_fields[i]]
                 ELSE upper(selected_fields[i]) : i \in 1..Len(selected_fields)}
    IN  [i \in 1..Len(data) |->
            [field \in keep \cap DOMAIN data[i] |-> data[i][field]]]

apply_field_filters(data, selected_fields) ==
    IF data = <<>> THEN data
    ELSE IF selected_fields = <<>> THEN data
    ELSE
    LET db_fields_to_keep ==
            [i \in 1..Len(selected_fields) |->
                IF selected_fields[i] \in DOMAIN frontend_to_db_mapping
                THEN frontend_to_db_mapping[selected_fields[i]]
                ELSE upper(selected_fields[i])]
        essential_fields == <<"_source_database">>
        all_fields_to_keep == essential_fields \o db_fields_to_keep
        filtered(record) ==
            [field \in Elems(all_fields_to_keep) \cap DOMAIN record |->
                record[field]]
    IN  [i \in 1..Len(data) |->
            IF Cardinality(DOMAIN filtered(data[i])) <= Len(essential_fields)
            THEN data[i]
            ELSE filtered(data[i])]

\* a plausible slip: the records are merged as the sources returned them
tag_source_omitted(record, database) == record

\* record["_source_database"] = database, for a record that is not empty
tag_source(record, database) ==
    IF DOMAIN record # {} THEN Update(record, [_source_database |-> S(database)])
    ELSE record

\* the loop of _consolidate_search_results over results.items()
RECURSIVE consolidate_loop(_, _)
consolidate_loop(items, acc) ==
    IF items = <<>> THEN acc
    ELSE
    LET database == Head(items)[1]
        result == Head(items)[2]
        database_data == Get(result, "data", <<>>)
    IN  IF Get(result, "success", FALSE)
        THEN consolidate_loop(Tail(items),
                 [consolidated_data |-> acc.consolidated_data \o
                      [i \in 1..Len(database_data) |->
                          tag_source(database_data[i], database)],
                  total_records |-> acc.total_records + Len(database_data),
                  success_count |-> acc.success_count + 1,
                  error_messages |-> acc.error_messages])
        ELSE consolidate_loop(Tail(items),
                 [acc EXCEPT !.error_messages =
                      Append(@, database \o ": "
                                \o Get(result, "message", "Erro desconhecido"))])

consolidate_start ==
    [consolidated_data |-> <<>>, total_records |-> 0, success_count |-> 0,
     error_messages |-> <<>>]

\* the dict _consolidate_search_results returns, given what its loop found
\* and the overall_success it computed
consolidated(acc, overall_success, items, params) ==
    [success |-> overall_success,
     data |-> apply_field_filters(acc.consolidated_data,
                                  Get(params, "selected_fields", <<>>)),
     total_records |-> acc.total_records,
     databases_queried |-> [i \in 1..Len(items) |-> items[i][1]],
     successful_databases |-> acc.success_count,
     message |->
         IF overall_success
         THEN IF acc.error_messages # <<>>
              THEN "Busca parcialmente bem-sucedida. "
                   \o ToString(acc.total_records)
                   \o " registros encontrados. Erros: "
                   \o join("; ", acc.error_messages)
              ELSE "Busca concluida com sucesso. "
                   \o ToString(acc.total_records) \o " registros encontrados."
         ELSE "Busca falhou em todos os sistemas. Erros: "
              \o join("; ", acc.error_messages),
     errors |-> IF acc.error_messages # <<>> THEN L(acc.error_messages) ELSE None,
     search_summary |->
         [search_type |-> Get(params, "search_type", None),
          value_count |-> Get(params, "count", 0),
          databases |-> [i \in 1..Len(items) |-> items[i][1]]]]

\* a plausible slip: the sources' own count fields are summed
consolidate_by_count(items, params) ==
    LET acc == consolidate_loop(items, consolidate_start)
        counted == [acc EXCEPT !.total_records =
                       IF items = <<>> THEN 0
                       ELSE LET n(i) == IF Get(items[i][2], "success", FALSE)
                                        THEN Get(items[i][2], "count", 0) ELSE 0
                            IN  IF Len(items) = 1 THEN n(1) ELSE n(1) + n(2)]
    IN  consolidated(counted, acc.success_count > 0, items, params)

\* a plausible slip: success only when every queried source succeeded
consolidate_all_or_nothing(items, params) ==
    LET acc == consolidate_loop(items, consolidate_start)
    IN  consolidated(acc, acc.success_count = Len(items), items, params)

\* ServiceManager._consolidate_search_results
consolidate_search_results(items, params) ==
    LET acc == consolidate_loop(items, consolidate_start)
    IN  consolidated(acc, acc.success_count > 0, items, params)

(***************************************************************************)
(* ServiceManager._execute_chained_search                                  *)
(***************************************************************************)
ATTRIBUTE_ERROR == "'NoneType' object has no attribute 'strip'"

\* an extraction that adds the cells as they are stored
RECURSIVE extract_circuitos_untrimmed(_, _)
extract_circuitos_untrimmed(somprd_data, circuitos_unicos) ==
    IF somprd_data = <<>>
    THEN [raised |-> FALSE, circuitos_unicos |-> circuitos_unicos]
    ELSE LET cell == Get(Head(somprd_data), "CIRCUITO", S(""))
         IN  IF cell = None
             THEN [raised |-> TRUE, circuitos_unicos |-> circuitos_unicos]
             ELSE extract_circuitos_untrimmed(Tail(somprd_data),
                      IF cell.s # ""
                      THEN circuitos_unicos \cup {cell.s}
                      ELSE circuitos_unicos)

\* "for record in somprd_data: circuito = record.get('CIRCUITO', '').strip()
\*  if circuito: circuitos_unicos.add(circuito)".  A None cell has no strip:
\* the loop raises AttributeError at the first such record.
RECURSIVE extract_circuitos(_, _)
extract_circuitos(somprd_data, circuitos_unicos) ==
    IF somprd_data = <<>>
    THEN [raised |-> FALSE, circuitos_unicos |-> circuitos_unicos]
    ELSE LET cell == Get(Head(somprd_data), "CIRCUITO", S(""))
         IN  IF cell = None
             THEN [raised |-> TRUE, circuitos_unicos |-> circuitos_unicos]
             ELSE extract_circuitos(Tail(somprd_data),
                      IF strip(cell.s) # ""
                      THEN circuitos_unicos \cup {strip(cell.s)}
                      ELSE circuitos_unicos)

\* the except branch of _execute_chained_search
chained_internal_error(e) ==
    [success |-> FALSE, data |-> <<>>, total_records |-> 0,
     message |-> "Erro interno na consulta encadeada: " \o e,
     error |-> e, chained_search |-> TRUE, step_failed |-> "INTERNAL_ERROR"]

chained_stage1_empty ==
    [success |-> TRUE, data |-> <<>>, total_records |-> 0,
     message |-> "Consulta inicial no SOMPRD nao retornou resultados. Consulta encadeada interrompida.",
     chained_search |-> TRUE, step_completed |-> "SOMPRD_EMPTY"]

\* the return for a failed stage-1 query
chained_stage1_failed(somprd_result) ==
    [success |-> FALSE, data |-> <<>>, total_records |-> 0,
     message |-> "Falha na consulta inicial SOMPRD: "
                 \o Get(somprd_result, "message", "Erro desconhecido"),
     error |-> Get(somprd_result, "error", "Consulta SOMPRD falhou"),
     chained_search |-> TRUE, step_failed |-> "SOMPRD_INITIAL"]

\* _execute_chained_search after a successful stage-1 query: the return that
\* ends the pipeline, or the set of circuits that stage 2 is run with
chained_after_stage1_ok(somprd_result) ==
    LET somprd_data == Get(somprd_result, "data", <<>>)
        extraction == extract_circuitos(somprd_data, {})
    IN  IF somprd_data = <<>>
        THEN [kind |-> "return", result |-> chained_stage1_empty]
        ELSE IF extraction.raised
        THEN [kind |-> "return", result |-> chained_internal_error(ATTRIBUTE_ERROR)]
        ELSE IF extraction.circuitos_unicos = {}
        THEN [kind |-> "return", result |->
                 [success |-> TRUE, data |-> <<>>, total_records |-> 0,
                  message |-> "Nenhum circuito valido encontrado nos resultados do SOMPRD. Consulta encadeada interrompida.",
                  chained_search |-> TRUE,
                  step_completed |-> "SOMPRD_NO_CIRCUITS",
                  somprd_records |-> Len(somprd_data)]]
        ELSE [kind |-> "continue", somprd_data |-> somprd_data,
              circuitos_unicos |-> extraction.circuitos_unicos]

\* a plausible slip: the success test on the stage-1 result is left out
chained_after_stage1_unchecked(somprd_result) ==
    chained_after_stage1_ok(somprd_result)

\* _execute_chained_search from the stage-1 result on
chained_after_stage1(somprd_result) ==
    IF ~Get(somprd_result, "success", FALSE)
    THEN [kind |-> "return", result |-> chained_stage1_failed(somprd_result)]
    ELSE chained_after_stage1_ok(somprd_result)

\* list(circuitos_unicos): the elements of the set in some order
Orderings(set) ==
    {l \in [1..Cardinality(set) -> set] : Elems(l) = set}

\* stage-2 parameters built afresh, without the caller's options
chained_cmprd_params_fresh(params, circuitos_list) ==
    [search_type |-> "Circuito",
     processed_values |-> circuitos_list,
     count |-> Len(circuitos_list),
     original_search_type |-> Get(params, "search_type", None),
     chained_from_somprd |-> TRUE]

\* cmprd_params = processed_params.copy(); cmprd_params.update({...})
chained_cmprd_params(params, circuitos_list) ==
    Update(params,
        [search_type |-> "Circuito",
         processed_values |-> circuitos_list,
         count |-> Len(circuitos_list),
         original_search_type |-> Get(params, "search_type", None),
         chained_from_somprd |-> TRUE])

\* a plausible slip: the failure return of stage 2 names no stage and
\* reports the key count for both counts
chained_stage2_failed_bare(somprd_data, circuitos_list, cmprd_result) ==
    [success |-> FALSE, data |-> <<>>, total_records |-> 0,
     message |-> "Falha na consulta CMPRD: "
                 \o Get(cmprd_result, "message", "Erro desconhecido"),
     error |-> Get(cmprd_result, "error", "Consulta CMPRD falhou"),
     chained_search |-> TRUE,
     somprd_records |-> Len(circuitos_list),
     circuitos_extraidos |-> Len(circuitos_list)]

\* the return for a failed stage-2 query
chained_stage2_failed(somprd_data, circuitos_list, cmprd_result) ==
    [success |-> FALSE, data |-> <<>>, total_records |-> 0,
     message |-> "Falha na consulta CMPRD: "
                 \o Get(cmprd_result, "message", "Erro desconhecido"),
     error |-> Get(cmprd_result, "error", "Consulta CMPRD falhou"),
     chained_search |-> TRUE, step_failed |-> "CMPRD_FINAL",
     somprd_records |-> Len(somprd_data),
     circuitos_extraidos |-> Len(circuitos_list)]

\* _execute_chained_search from the stage-2 result to its return
chained_after_stage2(params, somprd_data, circuitos_list, cmprd_result) ==
    IF ~Get(cmprd_result, "success", FALSE)
    THEN chained_stage2_failed(somprd_data, circuitos_list, cmprd_result)
    ELSE
    LET cmprd_data ==
            [i \in 1..Len(Get(cmprd_result, "data", <<>>)) |->
                Update(cmprd_result.data[i],
                    [_chained_search |-> B(TRUE),
                     _source_database |-> S("CMPRD"),
                     _original_search_type |-> S(Get(params, "search_type", ""))])]
    IN  [success |-> TRUE, data |-> cmprd_data,
         total_records |-> Len(cmprd_data),
         message |-> "Consulta encadeada concluida. "
                     \o ToString(Len(somprd_data)) \o " registros SOMPRD -> "
                     \o ToString(Len(circuitos_list)) \o " circuitos unicos -> "
                     \o ToString(Len(cmprd_data)) \o " registros CMPRD.",
         chained_search |-> TRUE,
         chain_summary |->
             [somprd_records |-> Len(somprd_data),
              unique_circuits |-> Len(circuitos_list),
              cmprd_records |-> Len(cmprd_data),
              original_search_type |-> Get(params, "search_type", None),
              final_search_type |-> "Circuito"]]

(***************************************************************************)
(* The requests and backend answers explored.                              *)
(***************************************************************************)
SearchTypes ==
    {"", "Invalido", "Protocolo Algar SOM", "Circuito", "CTO", "Fila"}

RawTexts == {"", " \n", "A", "B\nA"}

SystemSelections ==
    {<<>>, <<"SOMPRD">>, <<"CMPRD">>, <<"SOMPRD", "CMPRD">>, NoneList}

FieldSelections == {<<>>, <<"protocolo">>}

FullRequests ==
    {[search_type |-> t, values |-> v, add_zeros_protocolo |-> z,
      add_zero_circuito |-> FALSE, selected_systems |-> sys,
      selected_fields |-> f, consulta_encadeada |-> c] :
        t \in SearchTypes, v \in RawTexts, z \in BOOLEAN,
        sys \in SystemSelections, f \in FieldSelections, c \in BOOLEAN}

\* a request dict without the search_type key
WithoutSearchType(data) ==
    [k \in DOMAIN data \ {"search_type"} |-> data[k]]

\* requests that set every option field
OptionRequests ==
    {[search_type |-> t, values |-> "A", add_zeros_protocolo |-> FALSE,
      add_zero_circuito |-> FALSE, selected_systems |-> <<"SOMPRD", "CMPRD">>,
      selected_fields |-> f, consulta_encadeada |-> c,
      fila_value |-> "Despacho", data_inicio |-> S("01/01/2024"),
      data_inicio_fila |-> S("02/01/2024"), apenas_corretiva |-> TRUE,
      pon_info |-> [shelf_slot_porta |-> "1/1/1", olt_type |-> "nome",
                    olt_value |-> "OLT1"]] :
        t \in {"CTO", "Fila", "PON", "ID OS"}, c \in BOOLEAN,
        f \in {<<"circuito">>, AnInt}}

Requests ==
    FullRequests
        \cup {WithoutSearchType(r) : r \in {q \in FullRequests : q.search_type = ""}}
        \cup OptionRequests

SomprdViewRow(protocolo, circuito) ==
    [SERVICE_ORDER_ID |-> None, PROTOCOLO |-> protocolo,
     CIRCUITO |-> circuito, SUBSCRICAO |-> None, LOCALIDADE |-> None,
     FILA_ATUAL |-> None, TIPO |-> None, DATA_CRIACAO |-> None,
     DATA_ENTRADA_FILA |-> None]

SomprdViewRows ==
    {SomprdViewRow(S("A"), S("A")), SomprdViewRow(S("B"), S("B ")),
     SomprdViewRow(S("B"), None)}

CmprdViewRow(cto) ==
    [CTO |-> cto, PORTA_CTO |-> None, STATUS_PORTA_CTO |-> S("OCUPADO"),
     OLT |-> None, NOME_OLT_GERENCIA |-> None, IP_DADOS_OLT |-> None,
     SHELF_SLOT_PORTA |-> None, TECNOLOGIA |-> None, SERIAL |-> None,
     OUTER_VLAN |-> None, INNER_VLAN |-> None, LOCALIDADE |-> None,
     ESTACAO |-> None]

CmprdViewRows == {CmprdViewRow(S("A")), CmprdViewRow(S("B"))}

\* the rows of the CMPRD table: CIRCUITO is a column of the table that the
\* SELECT list of _build_dynamic_query does not fetch
CmprdTable ==
    {[CIRCUITO |-> r.CTO, row |-> r] : r \in CmprdViewRows}

\* SOMPRD _build_dynamic_filters: the column a value search is filtered on
\* ("" when the search type adds no IN predicate)
somprd_filter_column(search_params) ==
    LET search_type == Get(search_params, "search_type", "")
        values == Get(search_params, "processed_values", <<>>)
    IN  IF search_type = "Protocolo Algar SOM" /\ values # <<>> THEN "PROTOCOLO"
        ELSE IF search_type = "Circuito" /\ values # <<>> THEN "CIRCUITO"
        ELSE IF search_type = "ID OS" /\ values # <<>> THEN "SERVICE_ORDER_ID"
        ELSE IF search_type = "Localidade" /\ values # <<>> THEN "LOCALIDADE"
        ELSE ""

\* CMPRD _build_dynamic_filters: the column a value search is filtered on
cmprd_filter_column(search_params) ==
    LET search_type == Get(search_params, "search_type", "")
        values == Get(search_params, "processed_values", <<>>)
    IN  IF search_type = "Circuito" /\ values # <<>> THEN "CIRCUITO"
        ELSE IF search_type = "CTO" /\ values # <<>> THEN "CTO"
        ELSE ""

\* column IN (values) as the backend decides it: a NULL never matches, and a
\* stored value matches whatever its blank padding
in_clause_matches(cell, values) ==
    cell # None /\ strip(cell.s) \in Elems(values)

\* the answers of the SOMPRD backend to the query of search_params
SomprdOutcomes(search_params) ==
    LET column == somprd_filter_column(search_params)
        values == Get(search_params, "processed_values", <<>>)
        matching == {r \in SomprdViewRows :
                        column = "" \/ in_clause_matches(r[column], values)}
    IN  IF compile_raises(search_params) THEN {ConnectFails, CompileFails}
        ELSE {ConnectFails, ExecuteFails, NoAnswer}
                 \cup {Returns(rows) : rows \in ListsUpTo(matching, MaxRows)}

\* the answers of the CMPRD backend to the query of search_params
CmprdOutcomes(search_params) ==
    LET column == cmprd_filter_column(search_params)
        values == Get(search_params, "processed_values", <<>>)
        matching == {t.row : t \in {u \in CmprdTable :
                        \/ column = ""
                        \/ column = "CIRCUITO" /\ in_clause_matches(u.CIRCUITO, values)
                        \/ column = "CTO" /\ in_clause_matches(u.row.CTO, values)}}
    IN  IF compile_raises(search_params) THEN {ConnectFails, CompileFails}
        ELSE {ConnectFails, ExecuteFails, NoAnswer}
                 \cup {Returns(rows) : rows \in ListsUpTo(matching, MaxRows)}

(***************************************************************************)
(* process_search_request, step by step: each action runs the handler from *)
(* one call on a data source to the next one (or to its return).           *)
(***************************************************************************)
MainInit ==
    /\ frontend_data \in Requests
    /\ pc = "start"
    /\ processed_params = NoDict
    /\ results = <<>>
    /\ chain = NoDict
    /\ final_result = NoDict
    /\ db_log = <<>>
    /\ backend = <<>>

MainIdle ==
    /\ frontend_data = NoDict
    /\ pc = "idle"
    /\ processed_params = NoDict
    /\ results = <<>>
    /\ chain = NoDict
    /\ final_result = NoDict
    /\ db_log = <<>>
    /\ backend = <<>>

\* validation and pre-processing, up to the branch on consulta_encadeada
process_search_request ==
    /\ pc = "start"
    /\ LET validation_result == validate_search_request(frontend_data)
           processed == process_search_params(frontend_data)
       IN  IF ~validation_result.is_valid
           THEN /\ final_result' =
                       [success |-> FALSE,
                        message |-> validation_result.message,
                        data |-> <<>>,
                        error |-> Get(validation_result, "error", "Dados invalidos")]
                /\ pc' = "done"
                /\ UNCHANGED processed_params
           ELSE IF Get(processed, "error", "") # ""
           THEN /\ final_result' =
                       [success |-> FALSE,
                        message |-> "Erro no pre-processamento dos dados",
                        data |-> <<>>,
                        error |-> processed.error]
                /\ pc' = "done"
                /\ UNCHANGED processed_params
           ELSE /\ processed_params' = Update(processed, extra_params(frontend_data))
                /\ pc' = IF Get(frontend_data, "consulta_encadeada", FALSE)
                         THEN "chained_stage1" ELSE "multi_somprd"
                /\ UNCHANGED final_result
    /\ UNCHANGED <<frontend_data, results, chain, db_log, backend>>
    /\ UNCHANGED <<sv_vars, ro_vars, np_vars, ff_vars, cf_vars>>

\* _execute_multi_database_search: the SOMPRD branch; a selected_systems that
\* is no list raises there and the handler returns through its except branch
execute_multi_database_search_somprd ==
    /\ pc = "multi_somprd"
    /\ IF Get(processed_params, "selected_systems", <<"SOMPRD">>) = NoneList
       THEN /\ final_result' = internal_error(NOT_ITERABLE)
            /\ pc' = "done"
            /\ UNCHANGED <<results, db_log, backend>>
       ELSE /\ IF somprd_selected(Get(processed_params, "selected_systems",
                                      <<"SOMPRD">>))
               THEN \E outcome \in SomprdOutcomes(processed_params) :
                        /\ db_log' = db_log \o db_events("SOMPRD", outcome)
                        /\ IF outcome.kind = "no_answer"
                           THEN /\ pc' = "waiting"
                                /\ UNCHANGED <<results, backend>>
                           ELSE /\ results' = Append(results,
                                       <<"SOMPRD", somprd_execute_search_query(
                                                       processed_params, outcome)>>)
                                /\ backend' = Append(backend, <<"SOMPRD", outcome>>)
                                /\ pc' = "multi_cmprd"
               ELSE /\ pc' = "multi_cmprd"
                    /\ UNCHANGED <<results, db_log, backend>>
            /\ UNCHANGED final_result
    /\ UNCHANGED <<frontend_data, processed_params, chain>>
    /\ UNCHANGED <<sv_vars, ro_vars, np_vars, ff_vars, cf_vars>>

\* _execute_multi_database_search: the CMPRD branch, then consolidation and
\* the return of process_search_request
execute_multi_database_search_cmprd ==
    /\ pc = "multi_cmprd"
    /\ IF cmprd_selected(Get(processed_params, "selected_systems", <<"SOMPRD">>))
       THEN \E outcome \in CmprdOutcomes(processed_params) :
                /\ db_log' = db_log \o db_events("CMPRD", outcome)
                /\ IF outcome.kind = "no_answer"
                   THEN /\ pc' = "waiting"
                        /\ UNCHANGED <<results, backend, final_result>>
                   ELSE /\ results' = Append(results,
                               <<"CMPRD", cmprd_execute_search_query(
                                              processed_params, outcome)>>)
                        /\ backend' = Append(backend, <<"CMPRD", outcome>>)
                        /\ final_result' =
                               with_metadata(
                                   consolidate_search_results(results',
                                                              processed_params),
                                   processed_params)
                        /\ pc' = "done"
       ELSE /\ UNCHANGED <<results, db_log, backend>>
            /\ final_result' =
                   with_metadata(
                       consolidate_search_results(results, processed_params),
                       processed_params)
            /\ pc' = "done"
    /\ UNCHANGED <<frontend_data, processed_params, chain>>
    /\ UNCHANGED <<sv_vars, ro_vars, np_vars, ff_vars, cf_vars>>

\* _execute_chained_search: stage 1 on SOMPRD and the extraction of circuits
execute_chained_search_stage1 ==
    /\ pc = "chained_stage1"
    /\ \E outcome \in SomprdOutcomes(processed_params) :
           LET somprd_result == somprd_execute_search_query(processed_params, outcome)
               next == chained_after_stage1(somprd_result)
           IN  /\ db_log' = db_log \o db_events("SOMPRD", outcome)
               /\ IF outcome.kind = "no_answer"
                  THEN /\ pc' = "waiting"
                       /\ UNCHANGED <<backend, chain, final_result>>
                  ELSE /\ backend' = Append(backend, <<"SOMPRD", outcome>>)
                       /\ IF next.kind = "return"
                          THEN /\ final_result' =
                                      with_metadata(next.result, processed_params)
                               /\ pc' = "done"
                               /\ UNCHANGED chain
                          ELSE /\ \E circuitos_list \in
                                          Orderings(next.circuitos_unicos) :
                                      chain' =
                                          [somprd_data |-> next.somprd_data,
                                           circuitos_list |-> circuitos_list,
                                           cmprd_params |->
                                               chained_cmprd_params(
                                                   processed_params,
                                                   circuitos_list)]
                               /\ pc' = "chained_stage2"
                               /\ UNCHANGED final_result
    /\ UNCHANGED <<frontend_data, processed_params, results>>
    /\ UNCHANGED <<sv_vars, ro_vars, np_vars, ff_vars, cf_vars>>

\* _execute_chained_search: stage 2 on CMPRD and the return
execute_chained_search_stage2 ==
    /\ pc = "chained_stage2"
    /\ \E outcome \in CmprdOutcomes(chain.cmprd_params) :
           LET cmprd_result == cmprd_execute_search_query(chain.cmprd_params, outcome)
           IN  /\ db_log' = db_log \o db_events("CMPRD", outcome)
               /\ IF outcome.kind = "no_answer"
                  THEN /\ pc' = "waiting"
                       /\ UNCHANGED <<backend, final_result>>
                  ELSE /\ backend' = Append(backend, <<"CMPRD", outcome>>)
                       /\ final_result' =
                              with_metadata(
                                  chained_after_stage2(processed_params,
                                      chain.somprd_data, chain.circuitos_list,
                                      cmprd_result),
                                  processed_params)
                       /\ pc' = "done"
    /\ UNCHANGED <<frontend_data, processed_params, results, chain>>
    /\ UNCHANGED <<sv_vars, ro_vars, np_vars, ff_vars, cf_vars>>

(***************************************************************************)
(* split_values_for_oracle_in_clause applied to a list and a chunk size.   *)
(***************************************************************************)
ChunkValues == {"a", "b"}

SvInit ==
    /\ sv_values \in ListsUpTo(ChunkValues, MaxValues)
    /\ sv_chunk_size \in 1..MaxChunk
    /\ sv_chunks = [done |-> FALSE]

SvIdle ==
    /\ sv_values = <<>>
    /\ sv_chunk_size = chunk_size_default
    /\ sv_chunks = [done |-> FALSE]

SplitValues ==
    /\ ~sv_chunks.done
    /\ sv_chunks' = [done |-> TRUE,
                     chunks |-> split_values_for_oracle_in_clause(sv_values,
                                                                  sv_chunk_size)]
    /\ UNCHANGED <<sv_values, sv_chunk_size>>
    /\ UNCHANGED <<main_vars, ro_vars, np_vars, ff_vars, cf_vars>>

(***************************************************************************)
(* SOMPRDQueries._reorder_results_by_input applied to raw rows and the     *)
(* de-duplicated, trimmed input list.                                      *)
(***************************************************************************)
RawRows ==
    {[PROTOCOLO |-> p, CIRCUITO |-> c] :
        p \in {S("A"), S("B"), S(" B "), None}, c \in {S("A"), S("B ")}}
    \cup {[CIRCUITO |-> c] : c \in {S("A"), S("B ")}}

InputValues == {"A", "B", "C"}

RoSearchTypes == {"Protocolo Algar SOM", "Circuito", "CTO"}

RoInit ==
    /\ ro_results \in ListsUpTo(RawRows, MaxRawRows)
    /\ ro_input_values \in {l \in ListsUpTo(InputValues, Cardinality(InputValues)) :
                               l # <<>> /\ NoDuplicates(l)}
    /\ ro_search_type \in RoSearchTypes
    /\ ro_output = [done |-> FALSE]

RoIdle ==
    /\ ro_results = <<>>
    /\ ro_input_values = <<>>
    /\ ro_search_type = ""
    /\ ro_output = [done |-> FALSE]

ReorderResults ==
    /\ ~ro_output.done
    /\ ro_output' = [done |-> TRUE,
                     rows |-> somprd_reorder_results_by_input(ro_results,
                                  ro_input_values, ro_search_type)]
    /\ UNCHANGED <<ro_results, ro_input_values, ro_search_type>>
    /\ UNCHANGED <<main_vars, sv_vars, np_vars, ff_vars, cf_vars>>

(***************************************************************************)
(* InputProcessor.process_search_params applied to a validated request.    *)
(***************************************************************************)
RawLines == {"A", " A", "B ", "", " "}

\* the raw texts of at most MaxLines lines
NpRawTexts ==
    {join("\n", lines) : lines \in ListsUpTo(RawLines, MaxLines)}
        \cup {"123\nabc\n123"}

NpSearchTypes == {"Protocolo Algar SOM", "Circuito", "CTO"}

NpInit ==
    /\ np_search_data \in
           {[search_type |-> t, values |-> v, add_zeros_protocolo |-> zp,
             add_zero_circuito |-> zc] :
               t \in NpSearchTypes, v \in NpRawTexts,
               zp \in BOOLEAN, zc \in BOOLEAN}
    /\ np_output = [done |-> FALSE]

NpIdle ==
    /\ np_search_data = NoDict
    /\ np_output = [done |-> FALSE]

NormalizeInput ==
    /\ ~np_output.done
    /\ np_output' = [done |-> TRUE,
                     values |-> clean_and_split_input(np_search_data.values),
                     params |-> process_search_params(np_search_data)]
    /\ UNCHANGED np_search_data
    /\ UNCHANGED <<main_vars, sv_vars, ro_vars, ff_vars, cf_vars>>

(***************************************************************************)
(* _apply_field_filters applied to consolidated (tagged) records and a     *)
(* field selection.                                                        *)
(***************************************************************************)
FfRecords ==
    {[_source_database |-> S("SOMPRD"), PROTOCOLO |-> S("A"), CIRCUITO |-> None],
     [_source_database |-> S("SOMPRD"), PROTOCOLO |-> S("B")],
     [_source_database |-> S("CMPRD"), CTO |-> S("A"), OLT |-> None],
     [_source_database |-> S("CMPRD"), CTO |-> S("B")]}

FfFields == {"protocolo", "circuito", "Cto", "olt"}

FfInit ==
    /\ ff_data \in ListsUpTo(FfRecords, MaxRows)
    /\ ff_selected_fields \in ListsUpTo(FfFields, MaxFields)
    /\ ff_output = [done |-> FALSE]

FfIdle ==
    /\ ff_data = <<>>
    /\ ff_selected_fields = <<>>
    /\ ff_output = [done |-> FALSE]

ApplyFieldFilters ==
    /\ ~ff_output.done
    /\ ff_output' = [done |-> TRUE,
                     data |-> apply_field_filters(ff_data, ff_selected_fields)]
    /\ UNCHANGED <<ff_data, ff_selected_fields>>
    /\ UNCHANGED <<main_vars, sv_vars, ro_vars, np_vars, cf_vars>>

(***************************************************************************)
(* _build_dynamic_filters of SOMPRDQueries and of CMPRDQueries applied to  *)
(* a search_params dict.                                                   *)
(***************************************************************************)
CfSearchTypes == valid_types \cup {"VLAN Outer", "IP da OLT"}

\* value lists of every length up to MaxValues: all different, or all alike
CfValueLists ==
    {[i \in 1..k |-> "v" \o ToString(i)] : k \in 0..MaxValues}
        \cup {[i \in 1..k |-> "a"] : k \in 2..MaxValues}

CfQueues == {"", "Massiva", "Despacho", "Triagem", "Outra"}

CfDates == {None, S(""), S("01/01/2024")}

\* pon_info dicts: every key present or absent, every value empty or not,
\* every node kind of the code and one it does not know
CfPonInfos ==
    {(IF slot = "absent" THEN EmptyDict ELSE "shelf_slot_porta" :> slot)
        @@ (IF kind = "absent" THEN EmptyDict ELSE "olt_type" :> kind)
        @@ (IF node = "absent" THEN EmptyDict ELSE "olt_value" :> node) :
        slot \in {"absent", "", "1/1/1"},
        kind \in {"absent", "nome", "gerencia", "ip", "vlan", "serial"},
        node \in {"absent", "", "OLT1"}}

CfOptions ==
    [data_inicio : CfDates, data_inicio_fila : {None, S("02/01/2024")},
     apenas_corretiva : BOOLEAN]

cf_params(search_type, values, fila_value, options) ==
    [search_type |-> search_type,
     processed_values |-> values,
     count |-> Len(values),
     fila_value |-> fila_value,
     data_inicio |-> options.data_inicio,
     data_inicio_fila |-> options.data_inicio_fila,
     apenas_corretiva |-> options.apenas_corretiva]

CfSearchParams ==
    {cf_params(search_type, values, "", options) :
        search_type \in CfSearchTypes \ {"Fila", "PON"},
        values \in CfValueLists, options \in CfOptions}
    \cup {cf_params("Fila", <<"v1">>, fila_value, options) :
        fila_value \in CfQueues, options \in CfOptions}
    \cup {cf_params("PON", <<"v1">>, "", options) : options \in CfOptions}
    \cup {cf_params("PON", <<"v1">>, "", options) @@ ("pon_info" :> pon_info) :
        pon_info \in CfPonInfos, options \in CfOptions}

CfInit ==
    /\ cf_search_params \in CfSearchParams
    /\ cf_chunk_size \in 1..MaxChunk
    /\ cf_somprd = [done |-> FALSE]
    /\ cf_cmprd = [done |-> FALSE]

CfIdle ==
    /\ cf_search_params = EmptyDict
    /\ cf_chunk_size = chunk_size_default
    /\ cf_somprd = [done |-> FALSE]
    /\ cf_cmprd = [done |-> FALSE]

BuildSomprdFilters ==
    /\ ~cf_somprd.done
    /\ LET built == somprd_build_dynamic_filters(cf_search_params,
                                                 cf_chunk_size)
       IN  cf_somprd' = [done |-> TRUE, clause |-> built.clause,
                         params |-> built.params]
    /\ UNCHANGED <<cf_search_params, cf_chunk_size, cf_cmprd>>
    /\ UNCHANGED <<main_vars, sv_vars, ro_vars, np_vars, ff_vars>>

BuildCmprdFilters ==
    /\ ~cf_cmprd.done
    /\ LET built == cmprd_build_dynamic_filters(cf_search_params,
                                                cf_chunk_size)
       IN  cf_cmprd' = [done |-> TRUE, clause |-> built.clause,
                        params |-> built.params]
    /\ UNCHANGED <<cf_search_params, cf_chunk_size, cf_somprd>>
    /\ UNCHANGED <<main_vars, sv_vars, ro_vars, np_vars, ff_vars>>

(***************************************************************************)
(* Specifications.                                                         *)
(***************************************************************************)
Init == MainInit /\ SvIdle /\ RoIdle /\ NpIdle /\ FfIdle /\ CfIdle

Next ==
    \/ process_search_request
    \/ execute_multi_database_search_somprd
    \/ execute_multi_database_search_cmprd
    \/ execute_chained_search_stage1
    \/ execute_chained_search_stage2

Spec == Init /\ [][Next]_vars

InitSplit == MainIdle /\ SvInit /\ RoIdle /\ NpIdle /\ FfIdle /\ CfIdle

SpecSplit == InitSplit /\ [][SplitValues]_vars

InitReorder == MainIdle /\ SvIdle /\ RoInit /\ NpIdle /\ FfIdle /\ CfIdle

SpecReorder == InitReorder /\ [][ReorderResults]_vars

InitParams == MainIdle /\ SvIdle /\ RoIdle /\ NpInit /\ FfIdle /\ CfIdle

SpecParams == InitParams /\ [][NormalizeInput]_vars

InitFilter == MainIdle /\ SvIdle /\ RoIdle /\ NpIdle /\ FfInit /\ CfIdle

SpecFilter == InitFilter /\ [][ApplyFieldFilters]_vars

InitCompile == MainIdle /\ SvIdle /\ RoIdle /\ NpIdle /\ FfIdle /\ CfInit

NextCompile == BuildSomprdFilters \/ BuildCmprdFilters

SpecCompile == InitCompile /\ [][NextCompile]_vars

(***************************************************************************)
(* Properties.                                                             *)
(***************************************************************************)
\* ceil(n / l) for l > 0
CeilDiv(n, l) == (n + l - 1) \div l

\* the docstring's example: 1,500 values with the default chunk size
Scenario1500 ==
    LET values == [i \in 1..1500 |-> "val" \o ToString(i - 1)]
        chunks == split_values_for_oracle_in_clause(values, chunk_size_default)
    IN  /\ Len(chunks) = 2
        /\ Len(chunks[1]) = 1000
        /\ Len(chunks[2]) = 500
        /\ chunks[1] \o chunks[2] = values

\* C1: split_values_for_oracle_in_clause returns ceil(N/L) chunks, each of
\* 1..L values, whose concatenation in order is the original list; 1,500
\* values with the default size give chunks of 1000 and 500.
C1_ChunksPartitionValues ==
    /\ sv_chunks.done =>
          /\ Len(sv_chunks.chunks) = CeilDiv(Len(sv_values), sv_chunk_size)
          /\ \A i \in 1..Len(sv_chunks.chunks) :
                 /\ Len(sv_chunks.chunks[i]) >= 1
                 /\ Len(sv_chunks.chunks[i]) <= sv_chunk_size
          /\ flatten(sv_chunks.chunks) = sv_values
    /\ Scenario1500

\* five values in chunks of two: 2 + 2 + 1
C1_Witness ==
    /\ sv_chunks.done
    /\ Len(sv_values) = 5
    /\ sv_chunk_size = 2
    /\ Len(sv_chunks.chunks) = 3
    /\ Len(sv_chunks.chunks[3]) = 1

\* the text of a row's PROTOCOLO cell as the reconciler reads it
ProtocolKey(row) == strip(str(Get(row, "PROTOCOLO", S(""))))

\* a placeholder row for a protocol
IsPlaceholder(row, protocol) ==
    /\ "PROTOCOLO" \in DOMAIN row /\ row["PROTOCOLO"] = S(protocol)
    /\ "ATIVIDADE" \in DOMAIN row /\ row["ATIVIDADE"] = S(NOT_FOUND)
    /\ \A k \in DOMAIN row \ {"PROTOCOLO", "ATIVIDADE", "_source_database"} :
           row[k] = None

ProtocolReconciled ==
    /\ ro_output.done
    /\ ro_search_type = "Protocolo Algar SOM"
    /\ ro_input_values # <<>>

\* C2 as stated: for the protocol type the output has one row per input
\* value, and the row at position i has PROTOCOLO equal to the input value.
C2_KeyFieldEqualsInput ==
    ProtocolReconciled =>
        /\ Len(ro_output.rows) = Len(ro_input_values)
        /\ \A i \in 1..Len(ro_input_values) :
               /\ "PROTOCOLO" \in DOMAIN ro_output.rows[i]
               /\ ro_output.rows[i]["PROTOCOLO"] = S(ro_input_values[i])

\* C2 amended: one row per input value; the row at position i has PROTOCOLO
\* equal to the input value once read as text and trimmed; it is the last
\* raw row with that trimmed protocol when there is one, else a placeholder
\* whose PROTOCOLO is the input value and whose status is the sentinel.
C2_TrimmedKeyEqualsInput ==
    ProtocolReconciled =>
        /\ Len(ro_output.rows) = Len(ro_input_values)
        /\ \A i \in 1..Len(ro_input_values) :
               LET matches == {j \in 1..Len(ro_results) :
                                  ProtocolKey(ro_results[j]) = ro_input_values[i]}
               IN  /\ ProtocolKey(ro_output.rows[i]) = ro_input_values[i]
                   /\ matches # {} =>
                          ro_output.rows[i] =
                              ro_results[CHOOSE j \in matches :
                                            \A k \in matches : k <= j]
                   /\ matches = {} =>
                          IsPlaceholder(ro_output.rows[i], ro_input_values[i])

\* inputs A, B, C with only B matched: placeholder, row, placeholder
C2_Witness ==
    /\ ProtocolReconciled
    /\ ro_input_values = <<"A", "B", "C">>
    /\ ro_results = <<[PROTOCOLO |-> S("B"), CIRCUITO |-> S("A")]>>
    /\ ro_output.rows[2] = ro_results[1]
    /\ IsPlaceholder(ro_output.rows[1], "A")
    /\ IsPlaceholder(ro_output.rows[3], "C")

Chained == pc # "idle" /\ Get(frontend_data, "consulta_encadeada", FALSE)

FanOut == pc # "idle" /\ ~Get(frontend_data, "consulta_encadeada", FALSE)

\* C3 as stated: a protocol search on SOMPRD whose query matched no row
\* still returns one placeholder row per input value.
C3_PlaceholdersWhenNothingMatched ==
    FanOut =>
        \A i \in 1..Len(results) :
            (/\ results[i][1] = "SOMPRD"
             /\ processed_params.search_type = "Protocolo Algar SOM"
             /\ backend[i][2].kind = "rows"
             /\ backend[i][2].rows = <<>>)
            => /\ Len(results[i][2].data) = Len(processed_params.processed_values)
               /\ \A j \in 1..Len(results[i][2].data) :
                      IsPlaceholder(results[i][2].data[j],
                                    processed_params.processed_values[j])

RECURSIVE SumRows(_)
SumRows(items) ==
    IF items = <<>> THEN 0
    ELSE Len(Head(items)[2].data) + SumRows(Tail(items))

Consolidated == FanOut /\ pc = "done" /\ "databases_queried" \in DOMAIN final_result

\* C4: total_records is the sum of the rows of every queried source, and
\* success holds exactly when some queried source succeeded.
C4_TotalsAndSuccess ==
    Consolidated =>
        /\ final_result.total_records = SumRows(results)
        /\ final_result.success <=>
               \E i \in 1..Len(results) : results[i][2].success

\* both sources succeed, with two rows and one row
C4_Witness ==
    /\ Consolidated
    /\ Len(results) = 2
    /\ results[1][2].success /\ Len(results[1][2].data) = 2
    /\ results[2][2].success /\ Len(results[2][2].data) = 1
    /\ final_result.total_records = 3
    /\ final_result.success

\* how many events of a kind the log holds for a database
Count(log, op, database) ==
    Cardinality({i \in 1..Len(log) :
                    log[i].op = op /\ log[i].database = database})

Selected(database) ==
    IF database = "SOMPRD"
    THEN somprd_selected(Get(frontend_data, "selected_systems", <<"SOMPRD">>))
    ELSE cmprd_selected(Get(frontend_data, "selected_systems", <<"SOMPRD">>))

\* row i of the result is row i of the source's rows, tagged and projected
RowsOf(out, database, rows) ==
    /\ Len(out) = Len(rows)
    /\ \A i \in 1..Len(out) :
           /\ out[i]["_source_database"] = S(database)
           /\ \A k \in DOMAIN out[i] \ {"_source_database"} :
                  k \in DOMAIN rows[i] /\ out[i][k] = rows[i][k]

\* C5: in fan-out mode each selected source is queried exactly once whatever
\* the other source did; with one failure and one success the result is a
\* success holding the succeeding source's rows and the failure's message.
C5_FanOutIsolation ==
    Consolidated =>
        /\ \A database \in {"SOMPRD", "CMPRD"} :
               LET n == IF Selected(database) THEN 1 ELSE 0
               IN  /\ Count(db_log, "get_connection", database) = n
                   /\ Count(db_log, "execute", database) <= n
                   /\ Cardinality({i \in 1..Len(results) :
                                      results[i][1] = database}) = n
        /\ \A i, j \in 1..Len(results) :
               (~results[i][2].success /\ results[j][2].success) =>
                   /\ final_result.success
                   /\ RowsOf(final_result.data, results[j][1], results[j][2].data)
                   /\ final_result.errors =
                          L(<<results[i][1] \o ": " \o results[i][2].message>>)

\* SOMPRD cannot connect, CMPRD returns a row
C5_Witness ==
    /\ Consolidated
    /\ Len(results) = 2
    /\ backend[1] = <<"SOMPRD", ConnectFails>>
    /\ results[2][2].success /\ Len(results[2][2].data) = 1
    /\ final_result.success
    /\ Len(final_result.data) = 1

\* the stage-1 result of a chained search, once SOMPRD has been queried
Stage1Result == somprd_execute_search_query(processed_params, backend[1][2])

\* the distinct non-empty trimmed CIRCUITO values of rows
DistinctCircuits(rows) ==
    {strip(c.s) : c \in {Get(rows[i], "CIRCUITO", S("")) : i \in 1..Len(rows)}
                         \ {None}} \ {""}

\* C6: in a chained search CMPRD is queried at most once and only after the
\* SOMPRD query succeeded; a failed stage 1 gives success = false, no rows,
\* the stage-1 identifier, and no CMPRD query.
C6_Stage1GatesStage2 ==
    Chained =>
        /\ Count(db_log, "get_connection", "CMPRD") <= 1
        /\ \A i \in 1..Len(backend) :
               backend[i][1] = "CMPRD" =>
                   /\ i = 2
                   /\ backend[1][1] = "SOMPRD"
                   /\ Stage1Result.success
        /\ (pc = "done" /\ Len(backend) >= 1 /\ ~Stage1Result.success) =>
               /\ ~final_result.success
               /\ final_result.data = <<>>
               /\ "step_failed" \in DOMAIN final_result
               /\ final_result.step_failed = "SOMPRD_INITIAL"
               /\ Count(db_log, "get_connection", "CMPRD") = 0

\* the stage-1 query fails at execute
C6_Witness ==
    /\ Chained /\ pc = "done"
    /\ backend = <<<<"SOMPRD", ExecuteFails>>>>
    /\ final_result.step_failed = "SOMPRD_INITIAL"

\* C7 as stated: stage 1 with zero rows, or with no key to extract, ends the
\* pipeline as a success with no rows, no CMPRD query and no failed stage.
C7_EmptyStage1IsSuccess ==
    (/\ Chained /\ pc = "done" /\ Len(backend) >= 1
     /\ Stage1Result.success
     /\ DistinctCircuits(Stage1Result.data) = {})
    => /\ final_result.success
       /\ final_result.data = <<>>
       /\ final_result.total_records = 0
       /\ Count(db_log, "get_connection", "CMPRD") = 0
       /\ "step_failed" \notin DOMAIN final_result

\* C8 as stated: a chained search that reaches DONE returns the rows the
\* secondary source returned, tagged, with matching counts in the summary.
C8_DoneReturnsStage2Rows ==
    (Chained /\ pc = "done" /\ "chain_summary" \in DOMAIN final_result) =>
        /\ Len(final_result.data) = Len(backend[2][2].rows)
        /\ \A i \in 1..Len(final_result.data) :
               /\ final_result.data[i]["_source_database"] = S("CMPRD")
               /\ final_result.data[i]["_chained_search"] = B(TRUE)
               /\ final_result.data[i]["_original_search_type"] =
                      S(processed_params.search_type)
        /\ final_result.total_records = Len(backend[2][2].rows)
        /\ final_result.chain_summary.somprd_records = Len(Stage1Result.data)
        /\ final_result.chain_summary.unique_circuits =
               Cardinality(DistinctCircuits(Stage1Result.data))
        /\ final_result.chain_summary.cmprd_records = Len(backend[2][2].rows)

\* C9: a failed stage-2 query gives success = false, no rows, the stage-2
\* identifier, the stage-1 record count and the extracted-key count.
C9_Stage2Failure ==
    (Chained /\ pc = "done" /\ Len(backend) = 2 /\ backend[2][2].kind # "rows") =>
        /\ ~final_result.success
        /\ final_result.data = <<>>
        /\ "step_failed" \in DOMAIN final_result
        /\ final_result.step_failed = "CMPRD_FINAL"
        /\ "somprd_records" \in DOMAIN final_result
        /\ final_result.somprd_records = Len(Stage1Result.data)
        /\ "circuitos_extraidos" \in DOMAIN final_result
        /\ final_result.circuitos_extraidos =
               Cardinality(DistinctCircuits(Stage1Result.data))

\* two stage-1 rows, two circuits, then CMPRD cannot connect
C9_Witness ==
    /\ Chained /\ pc = "done" /\ Len(backend) = 2
    /\ backend[2][2] = ConnectFails
    /\ final_result.step_failed = "CMPRD_FINAL"
    /\ final_result.somprd_records = 2
    /\ final_result.circuitos_extraidos = 2

\* a request that validation has to reject
Rejected(data) ==
    \/ "search_type" \notin DOMAIN data
    \/ data["search_type"] = ""
    \/ data["search_type"] \notin valid_types
    \/ data["search_type"] # "Fila" /\ strip(Get(data, "values", "")) = ""

ReasonOf(data) ==
    IF "search_type" \notin DOMAIN data \/ data["search_type"] = ""
    THEN "MISSING_REQUIRED_FIELDS"
    ELSE IF data["search_type"] \notin valid_types THEN "INVALID_SEARCH_TYPE"
    ELSE "MISSING_SEARCH_VALUES"

\* C10: a request without search type, with an unknown search type, or (not
\* a queue search) without values is answered success = false with a reason
\* code and no rows; no source is queried and no connection acquired.
C10_ValidationRejects ==
    (pc # "idle" /\ Rejected(frontend_data)) =>
        /\ db_log = <<>>
        /\ backend = <<>>
        /\ pc \in {"start", "done"}
        /\ pc = "done" =>
               /\ ~final_result.success
               /\ final_result.data = <<>>
               /\ final_result.error = ReasonOf(frontend_data)

\* a circuit search whose values are only white space
C10_Witness ==
    /\ pc = "done"
    /\ "search_type" \in DOMAIN frontend_data
    /\ "values" \in DOMAIN frontend_data
    /\ frontend_data.search_type = "Circuito"
    /\ frontend_data.values = " \n"
    /\ final_result.error = "MISSING_SEARCH_VALUES"
    /\ db_log = <<>>

QueueWithoutValues ==
    /\ pc = "done"
    /\ "search_type" \in DOMAIN frontend_data
    /\ frontend_data.search_type = "Fila"
    /\ strip(frontend_data.values) = ""

\* C11 as stated: a queue (Fila) request with empty values is not returned
\* as a failure of validation or normalisation; its selected sources are
\* queried.
C11_QueueNeedsNoValues ==
    QueueWithoutValues =>
        /\ processed_params # NoDict
        /\ "input_summary" \in DOMAIN final_result
        /\ ~Get(frontend_data, "consulta_encadeada", FALSE) =>
               \A database \in {"SOMPRD", "CMPRD"} :
                   Selected(database) =>
                       Count(db_log, "get_connection", database) = 1

\* the lines of a raw text, each trimmed
TrimmedLines(raw) ==
    [i \in 1..Len(split_lines(raw)) |-> strip(split_lines(raw)[i])]

\* where a value first stands in a list
FirstIndex(v, list) ==
    CHOOSE i \in 1..Len(list) :
        list[i] = v /\ \A k \in 1..(i - 1) : list[k] # v

\* C12: clean_and_split_input returns a list without repeats whose elements
\* are the trimmed non-blank lines of the input, in the order in which each
\* first occurs; empty or white-space input gives the empty list.
C12_CleanAndSplit ==
    np_output.done =>
        LET raw == np_search_data.values
            out == np_output.values
        IN  /\ NoDuplicates(out)
            /\ Elems(out) = Elems(TrimmedLines(raw)) \ {""}
            /\ \A i, j \in 1..Len(out) :
                   i < j => FirstIndex(out[i], TrimmedLines(raw))
                                < FirstIndex(out[j], TrimmedLines(raw))
            /\ (\A k \in 1..Len(raw) : SubSeq(raw, k, k) \in Whitespace)
                   => out = <<>>

\* " A", "B ", "A": the third line repeats the first once trimmed
C12_Witness ==
    /\ np_output.done
    /\ np_search_data.values = " A\nB \nA"
    /\ np_output.values = <<"A", "B">>

Normalized == np_output.done /\ "error" \notin DOMAIN np_output.params

\* a list with a prefix put before every element
Prefixed(prefix, list) == [i \in 1..Len(list) |-> prefix \o list[i]]

\* the scenario "123\nabc\n123" with protocol zero-padding
Scenario123 ==
    process_search_params(
        [search_type |-> "Protocolo Algar SOM", values |-> "123\nabc\n123",
         add_zeros_protocolo |-> TRUE]).processed_values = <<"00123", "00abc">>

\* C13: processed_values is a padding applied element by element to the
\* de-duplicated list: same length, same order, no repeated term.
C13_PaddingAfterDeduplication ==
    /\ Normalized =>
          LET deduplicated == np_output.values
              processed_values == np_output.params.processed_values
          IN  /\ Len(processed_values) = Len(deduplicated)
              /\ NoDuplicates(processed_values)
              /\ \E prefix \in {"", "0", "00"} :
                     processed_values = Prefixed(prefix, deduplicated)
    /\ Scenario123

C13_Witness ==
    /\ Normalized
    /\ np_search_data.values = "123\nabc\n123"
    /\ np_search_data.add_zeros_protocolo
    /\ np_search_data.search_type = "Protocolo Algar SOM"
    /\ np_output.params.processed_values = <<"00123", "00abc">>

\* C14: "00" is prepended exactly when the protocol flag is set and the type
\* name contains "Protocolo", "0" exactly when the circuit flag is set and
\* the type name contains "Circuito", never both, otherwise the list is
\* unchanged; the summary names the transform applied.
C14_TransformsAndSummary ==
    Normalized =>
        LET deduplicated == np_output.values
            processed_values == np_output.params.processed_values
            summary == np_output.params.transformations_applied
            protocol_applied ==
                processed_values = Prefixed("00", deduplicated)
            circuit_applied ==
                processed_values = Prefixed("0", deduplicated)
        IN  /\ protocol_applied <=>
                   /\ np_search_data.add_zeros_protocolo
                   /\ Contains("Protocolo", np_search_data.search_type)
            /\ circuit_applied <=>
                   /\ np_search_data.add_zero_circuito
                   /\ Contains("Circuito", np_search_data.search_type)
            /\ ~(protocol_applied /\ circuit_applied)
            /\ ~protocol_applied /\ ~circuit_applied =>
                   processed_values = deduplicated
            /\ summary.protocolo_zeros = protocol_applied
            /\ summary.circuito_zero = circuit_applied

\* both flags set on a circuit search: only the circuit transform applies
C14_Witness ==
    /\ Normalized
    /\ np_search_data.search_type = "Circuito"
    /\ np_search_data.add_zeros_protocolo
    /\ np_search_data.add_zero_circuito
    /\ np_search_data.values = "A\nB "
    /\ np_output.params.processed_values = <<"0A", "0B">>
    /\ np_output.params.transformations_applied =
           [protocolo_zeros |-> FALSE, circuito_zero |-> TRUE]

\* C15 as stated: a per-source result with success = true has count equal
\* to the number of rows in its row list.
C15_CountIsRowCount ==
    FanOut =>
        \A i \in 1..Len(results) :
            results[i][2].success =>
                results[i][2].count = Len(results[i][2].data)

\* the backend name of a selected field
BackendName(field) ==
    IF field \in DOMAIN frontend_to_db_mapping
    THEN frontend_to_db_mapping[field] ELSE upper(field)

\* C16: projection returns one record per input record, in order; with no
\* selected fields the record is unchanged; otherwise it keeps the source
\* tag and the selected fields (as backend names) it contains, unless that
\* leaves the source tag alone, and then the record is returned whole.
C16_Projection ==
    ff_output.done =>
        /\ Len(ff_output.data) = Len(ff_data)
        /\ \A i \in 1..Len(ff_data) :
               LET record == ff_data[i]
                   kept == DOMAIN record \cap
                           ({"_source_database"} \cup
                            {BackendName(ff_selected_fields[k]) :
                                k \in 1..Len(ff_selected_fields)})
               IN  IF ff_selected_fields = <<>> \/ kept \subseteq {"_source_database"}
                   THEN ff_output.data[i] = record
                   ELSE /\ DOMAIN ff_output.data[i] = kept
                        /\ \A k \in kept : ff_output.data[i][k] = record[k]

\* "olt" is kept as OLT by the first record; the second has neither
\* selected field and is returned whole
C16_Witness ==
    /\ ff_output.done
    /\ ff_selected_fields = <<"protocolo", "olt">>
    /\ ff_data = <<[_source_database |-> S("CMPRD"), CTO |-> S("A"), OLT |-> None],
                   [_source_database |-> S("CMPRD"), CTO |-> S("B")]>>
    /\ ff_output.data = <<[_source_database |-> S("CMPRD"), OLT |-> None],
                          [_source_database |-> S("CMPRD"), CTO |-> S("B")]>>

\* the source of row k of the consolidated rows: the successful sources'
\* rows follow one another in the order the sources were queried
SourceOfRow(k, items) ==
    LET first == IF items[1][2].success THEN Len(items[1][2].data) ELSE 0
    IN  IF k <= first THEN items[1][1] ELSE items[2][1]

Tagged(rows, items) ==
    \A k \in 1..Len(rows) :
        /\ "_source_database" \in DOMAIN rows[k]
        /\ rows[k]["_source_database"] = S(SourceOfRow(k, items))

\* C17: every row of a consolidated result carries the name of the source
\* that returned it, before and after projection, and the rows are those of
\* the successful sources only.
C17_SourceTags ==
    Consolidated =>
        LET before == consolidate_loop(results, consolidate_start).consolidated_data
        IN  /\ Len(before) = SumRows(SelectSeq(results, LAMBDA r : r[2].success))
            /\ Len(final_result.data) = Len(before)
            /\ Tagged(before, results)
            /\ Tagged(final_result.data, results)

\* one row from each source; the SOMPRD query itself names no source
C17_Witness ==
    /\ Consolidated
    /\ Len(results) = 2
    /\ Len(results[1][2].data) = 1
    /\ Len(results[2][2].data) = 1
    /\ "_source_database" \notin DOMAIN results[1][2].data[1]
    /\ final_result.data[1]["_source_database"] = S("SOMPRD")
    /\ final_result.data[2]["_source_database"] = S("CMPRD")

\* the failures a run has met: a source that could not be reached or that
\* rejected the query, a request refused by validation or normalisation, a
\* malformed selected_systems that raises in the fan-out
SourceFailed == \E i \in 1..Len(backend) : backend[i][2].kind # "rows"

InputRefused == pc = "done" /\ processed_params = NoDict

RaisedInFanOut ==
    /\ FanOut
    /\ processed_params # NoDict
    /\ processed_params.selected_systems = NoneList

Failure == SourceFailed \/ InputRefused \/ RaisedInFanOut

\* the result says what went wrong
Described(result) ==
    Get(result, "message", "") # "" \/ Get(result, "error", "") # ""

\* a failed source stands beside a successful one and is named in errors
PartialSuccess ==
    /\ Consolidated
    /\ final_result.success
    /\ \E i \in 1..Len(results) : results[i][2].success
    /\ \A i \in 1..Len(results) :
           ~results[i][2].success =>
               \E k \in 1..Len(final_result.errors.l) :
                   final_result.errors.l[k] =
                       results[i][1] \o ": " \o results[i][2].message

\* C18 as stated: every failure yields success = false with a message or an
\* error describing it.
C18_EveryFailureFails ==
    (pc = "done" /\ Failure) =>
        ~final_result.success /\ Described(final_result)

\* C18, amended: wherever the handler calls a source it goes on whatever the
\* source answers, it ends with a result, and a failure yields success = false
\* with a message or an error describing it, unless it is the failure of one
\* source beside the success of the other in the fan-out, which is named in
\* errors of a successful result.
C18_FailuresAreReported ==
    /\ pc \in {"multi_somprd", "multi_cmprd",
               "chained_stage1", "chained_stage2"} => ENABLED Next
    /\ pc = "done" => "success" \in DOMAIN final_result
    /\ (pc = "done" /\ Failure) =>
           \/ ~final_result.success /\ Described(final_result)
           \/ PartialSuccess

\* a request whose selected_systems is None has been answered through the
\* except branch of the handler
C18_Witness ==
    /\ pc = "done"
    /\ RaisedInFanOut
    /\ ~final_result.success
    /\ final_result.error = NOT_ITERABLE
    /\ db_log = <<>>

\* the handler is inside a call on a source that does not return
Blocked == pc = "waiting"

\* C19 as stated: a call on a source that does not complete is given up as
\* that source's failure and the handler goes on; it never stays blocked.
C19_NoIndefiniteBlock == Blocked => ENABLED Next

\* how often a row stands in a list
Occurrences(row, rows) == Cardinality({i \in 1..Len(rows) : rows[i] = row})

\* C20 as stated: for a reconciled type without placeholders every raw row
\* appears exactly once in the output.
C20_NoRowLost ==
    (ro_output.done /\ ro_search_type = "Circuito") =>
        /\ Len(ro_output.rows) = Len(ro_results)
        /\ \A row \in Elems(ro_results) :
               Occurrences(row, ro_output.rows) = Occurrences(row, ro_results)

\* the ordering field of a row for the reconciled type, read as text and
\* trimmed
CircuitKey(row) == strip(str(Get(row, "CIRCUITO", S(""))))

\* the input values some raw row matches, in input order
MatchedInputs ==
    SelectSeq(ro_input_values,
              LAMBDA v : \E j \in 1..Len(ro_results) : CircuitKey(ro_results[j]) = v)

CircuitReconciled == ro_output.done /\ ro_search_type = "Circuito"

\* C21 as stated: the leading rows of a non-placeholder reconciliation stand
\* for the matched input values in input order, each with its ordering field
\* equal to its input value; a type without ordering field returns the raw
\* rows unchanged.
C21_LeadingRowsEqualInputs ==
    /\ CircuitReconciled =>
           /\ Len(ro_output.rows) >= Len(MatchedInputs)
           /\ \A i \in 1..Len(MatchedInputs) :
                  /\ "CIRCUITO" \in DOMAIN ro_output.rows[i]
                  /\ ro_output.rows[i]["CIRCUITO"] = S(MatchedInputs[i])
    /\ (ro_output.done /\ ro_search_type = "CTO") => ro_output.rows = ro_results

\* C21, amended: the same with the ordering field read as text and trimmed;
\* the leading row of a value is the last raw row with that trimmed key, and
\* no row of the tail has the key of an input value.
C21_LeadingRowsMatchInputs ==
    /\ CircuitReconciled =>
           /\ Len(ro_output.rows) >= Len(MatchedInputs)
           /\ \A i \in 1..Len(MatchedInputs) :
                  LET matches == {j \in 1..Len(ro_results) :
                                     CircuitKey(ro_results[j]) = MatchedInputs[i]}
                  IN  /\ CircuitKey(ro_output.rows[i]) = MatchedInputs[i]
                      /\ ro_output.rows[i] =
                             ro_results[CHOOSE j \in matches :
                                           \A k \in matches : k <= j]
           /\ \A i \in (Len(MatchedInputs) + 1)..Len(ro_output.rows) :
                  CircuitKey(ro_output.rows[i]) \notin Elems(ro_input_values)
    /\ (ro_output.done /\ ro_search_type = "CTO") => ro_output.rows = ro_results

\* inputs B, A, C against rows fetched as A, B: the rows come out as B, A
C21_Witness ==
    /\ CircuitReconciled
    /\ ro_input_values = <<"B", "A", "C">>
    /\ Len(ro_results) = 2
    /\ CircuitKey(ro_results[1]) = "A" /\ CircuitKey(ro_results[2]) = "B"
    /\ ro_output.rows = <<ro_results[2], ro_results[1]>>

\* stage 2 of a chained search has its parameters
Stage2Prepared == Chained /\ chain # NoDict

\* C22: the key list passed to stage 2 has no duplicates and holds exactly
\* the distinct non-empty trimmed CIRCUITO values of the stage-1 rows.
C22_KeysAreDistinctCircuits ==
    Stage2Prepared =>
        /\ chain.somprd_data = Stage1Result.data
        /\ NoDuplicates(chain.cmprd_params.processed_values)
        /\ Elems(chain.cmprd_params.processed_values)
               = DistinctCircuits(chain.somprd_data)

\* two stage-1 rows, one with a padded circuit: two keys, the padded one
\* trimmed
C22_Witness ==
    /\ Stage2Prepared
    /\ Len(chain.somprd_data) = 2
    /\ chain.somprd_data[2]["CIRCUITO"] = S("B ")
    /\ Elems(chain.cmprd_params.processed_values) = {"A", "B"}

\* a stage-1 row whose key field is null or absent
NullKey(row) == Get(row, "CIRCUITO", None) = None

\* C23 as stated: a chained search whose stage-1 rows have a null or absent
\* key field skips those rows; it does not end in a failure because of them.
C23_NullKeysAreSkipped ==
    (/\ Chained /\ pc = "done" /\ Len(backend) >= 1
     /\ Stage1Result.success
     /\ \E i \in 1..Len(Stage1Result.data) : NullKey(Stage1Result.data[i]))
    => /\ Get(final_result, "step_failed", "") # "INTERNAL_ERROR"
       /\ Len(backend) = 1 =>
              /\ final_result.success
              /\ DistinctCircuits(Stage1Result.data) = {}

\* the keys stage 2 overrides and the chain markers it adds
Stage2Overrides == {"search_type", "processed_values", "count"}

Stage2Markers == {"original_search_type", "chained_from_somprd"}

\* what validation and normalisation made of the request
CallerParams ==
    Update(process_search_params(frontend_data), extra_params(frontend_data))

\* C24: the stage-2 parameters are the caller's processed parameters with
\* search_type, processed_values and count overridden and the chain markers
\* added; every other option is passed unchanged and the caller's processed
\* parameters are not modified.
C24_Stage2ParamsFrame ==
    Stage2Prepared =>
        LET cmprd_params == chain.cmprd_params
        IN  /\ DOMAIN cmprd_params = DOMAIN processed_params \cup Stage2Markers
            /\ \A k \in DOMAIN processed_params \ Stage2Overrides :
                   cmprd_params[k] = processed_params[k]
            /\ cmprd_params.search_type = "Circuito"
            /\ cmprd_params.processed_values = chain.circuitos_list
            /\ cmprd_params.count = Len(chain.circuitos_list)
            /\ cmprd_params.original_search_type = processed_params.search_type
            /\ cmprd_params.chained_from_somprd
            /\ processed_params = CallerParams

\* a chained request with every option set has reached stage 2
C24_Witness ==
    /\ Stage2Prepared
    /\ frontend_data \in OptionRequests
    /\ processed_params.search_type = "CTO"
    /\ chain.cmprd_params.selected_fields = <<"circuito">>
    /\ chain.cmprd_params.apenas_corretiva
    /\ chain.cmprd_params.fila_value = "Despacho"
    /\ chain.cmprd_params.data_inicio = S("01/01/2024")
    /\ chain.cmprd_params.data_inicio_fila = S("02/01/2024")

(***************************************************************************)
(* Properties of the compiled filters.                                     *)
(***************************************************************************)
\* a token of the filter text that is a placeholder
is_bind(token) == Len(token) > 1 /\ SubSeq(token, 1, 1) = ":"

\* the name a placeholder refers to
bind_name(token) == SubSeq(token, 2, Len(token))

\* the placeholders of a filter text, in order of occurrence
Placeholders(clause) == SelectSeq(clause, is_bind)

\* positions of the IN keywords of a filter text
InPositions(clause) == {i \in 1..Len(clause) : clause[i] = "IN"}

\* the ")" that closes the list opened after the IN at position i
ListClose(clause, i) ==
    CHOOSE j \in (i + 1)..Len(clause) :
        /\ clause[j] = ")"
        /\ \A k \in (i + 1)..(j - 1) : clause[k] # ")"

\* the list after the IN at position i is "( :p , :p , ... )"
ListWellFormed(clause, i) ==
    /\ i + 1 <= Len(clause) /\ clause[i + 1] = "("
    /\ \E j \in (i + 1)..Len(clause) : clause[j] = ")"
    /\ LET close == ListClose(clause, i)
       IN  /\ close > i + 2
           /\ \A k \in (i + 2)..(close - 1) :
                  IF (k - i) % 2 = 0 THEN is_bind(clause[k])
                  ELSE clause[k] = ","

\* the placeholders of all IN lists of a filter text, in order
InListPlaceholders(clause) ==
    LET inside(k) ==
            \E i \in InPositions(clause) : i < k /\ k < ListClose(clause, i)
        positions == {k \in 1..Len(clause) : is_bind(clause[k]) /\ inside(k)}
        RECURSIVE collect(_)
        collect(k) ==
            IF k > Len(clause) THEN <<>>
            ELSE (IF k \in positions THEN <<clause[k]>> ELSE <<>>)
                     \o collect(k + 1)
    IN  collect(1)

\* one IN fragment, ANDed as it stands
SingleFragment(clause) ==
    /\ Cardinality(InPositions(clause)) = 1
    /\ clause[1] = "AND"
    /\ clause[3] = "IN"

\* n IN fragments joined by OR inside one parenthesized group that is ANDed
OrGroup(clause, n) ==
    /\ Cardinality(InPositions(clause)) = n
    /\ clause[1] = "AND" /\ clause[2] = "(" /\ clause[4] = "IN"
    /\ \A i \in InPositions(clause) :
           LET close == ListClose(clause, i)
           IN  /\ close + 1 <= Len(clause)
               /\ IF \E j \in InPositions(clause) : j > i
                  THEN /\ clause[close + 1] = "OR"
                       /\ close + 3 \in InPositions(clause)
                  ELSE clause[close + 1] = ")"

CompiledWell(output, values, chunk_size) ==
    LET clause == output.clause
        listed == InListPlaceholders(clause)
        all == Placeholders(clause)
    IN  /\ \A i, j \in 1..Len(all) : all[i] = all[j] => i = j
        /\ InPositions(clause) # {} =>
               /\ \A i \in InPositions(clause) : ListWellFormed(clause, i)
               /\ Len(listed) = Len(values)
               /\ \A k \in 1..Len(listed) :
                      /\ bind_name(listed[k]) \in DOMAIN output.params
                      /\ output.params[bind_name(listed[k])] = values[k]
               /\ IF Len(values) <= chunk_size
                  THEN SingleFragment(clause)
                  ELSE OrGroup(clause, CeilDiv(Len(values), chunk_size))

\* C25: in a compiled filter the placeholders are pairwise distinct; the IN
\* lists hold one placeholder per input value, the k-th bound to the k-th
\* value; a list of at most chunk_size values (1000 in the code) gives one IN
\* fragment, a longer one gives one fragment per chunk, joined by OR inside
\* one parenthesized group that is ANDed to the filter.
C25_BindNamesAndChunks ==
    /\ cf_somprd.done =>
           CompiledWell(cf_somprd, cf_search_params.processed_values,
                        cf_chunk_size)
    /\ cf_cmprd.done =>
           CompiledWell(cf_cmprd, cf_search_params.processed_values,
                        cf_chunk_size)

\* a list of several chunks compiled together with the date-range and
\* data-fault predicates
C25_Witness ==
    /\ cf_somprd.done
    /\ Len(cf_search_params.processed_values) > 2 * cf_chunk_size
    /\ Cardinality(InPositions(cf_somprd.clause)) > 2
    /\ {"data_inicio", "data_inicio_fila", "servico_corretiva"}
           \subseteq DOMAIN cf_somprd.params

\* the filter holds an IN-list predicate over exactly the given values
RestrictedTo(output, values) ==
    LET listed == InListPlaceholders(output.clause)
    IN  /\ InPositions(output.clause) # {}
        /\ Len(listed) = Len(values)
        /\ \A k \in 1..Len(listed) :
               /\ bind_name(listed[k]) \in DOMAIN output.params
               /\ output.params[bind_name(listed[k])] = values[k]

\* a value-list search: a validated type other than Fila and PON, with values
ValueListSearch ==
    /\ cf_search_params.search_type \in valid_types \ {"Fila", "PON"}
    /\ cf_search_params.processed_values # <<>>

\* C26: for a validated search type other than Fila and PON and non-empty
\* processed_values, the filter compiled for each source holds an IN-list
\* predicate over exactly those values.
C26_ValuesRestrictEverySource ==
    ValueListSearch =>
        /\ cf_somprd.done =>
               RestrictedTo(cf_somprd, cf_search_params.processed_values)
        /\ cf_cmprd.done =>
               RestrictedTo(cf_cmprd, cf_search_params.processed_values)

\* the filter text holds the predicate "column <operator> :name"
HasPredicate(clause, column, name) ==
    \E i \in 1..(Len(clause) - 2) :
        clause[i] = column /\ clause[i + 2] = bind(name)

\* the option fields of a request
OptionFields ==
    {"fila_value", "pon_info", "data_inicio", "data_inicio_fila",
     "apenas_corretiva", "selected_systems", "selected_fields"}

\* a PON request with both co-ordinates set
PonRequest ==
    /\ Get(frontend_data, "search_type", "") = "PON"
    /\ "pon_info" \in DOMAIN frontend_data
    /\ Get(frontend_data.pon_info, "shelf_slot_porta", "") # ""
    /\ Get(frontend_data.pon_info, "olt_value", "") # ""

\* C27: every option field of the request is in the params handed to the
\* per-source compilers, with the caller's value, and a PON request with both
\* co-ordinates compiles for CMPRD to the slot/port and the node predicate.
C27_OptionsReachCompiler ==
    processed_params # NoDict =>
        /\ \A k \in OptionFields \cap DOMAIN frontend_data :
               /\ k \in DOMAIN processed_params
               /\ processed_params[k] = frontend_data[k]
        /\ PonRequest =>
               LET clause == cmprd_build_dynamic_filters(
                                 processed_params, chunk_size_default).clause
               IN  /\ HasPredicate(clause, "SHELF_SLOT_PORTA", "pon_value")
                   /\ \E column \in {"OLT", "NOME_OLT_GERENCIA", "IP_DADOS_OLT",
                                     "OUTER_VLAN"} :
                          HasPredicate(clause, column, "olt_value")

\* the column each node-identifier kind stands for
PonKindColumn ==
    [nome |-> "OLT", gerencia |-> "NOME_OLT_GERENCIA", ip |-> "IP_DADOS_OLT",
     vlan |-> "OUTER_VLAN"]

\* the filter text holds a node predicate, on the column of the kind when
\* the kind is a known one
HasNodePredicate(clause, kind) ==
    \E k \in DOMAIN PonKindColumn :
        /\ HasPredicate(clause, PonKindColumn[k], "olt_value")
        /\ kind \in DOMAIN PonKindColumn => k = kind

\* a name is bound exactly when its placeholder occurs in the text
BoundIffPlaced(output) ==
    /\ \A name \in DOMAIN output.params : bind(name) \in Elems(output.clause)
    /\ \A k \in 1..Len(output.clause) :
           is_bind(output.clause[k]) =>
               bind_name(output.clause[k]) \in DOMAIN output.params

ActivityPredicate(output, operator, value) ==
    /\ \E i \in 1..(Len(output.clause) - 2) :
           /\ output.clause[i] = "ATIVIDADE"
           /\ output.clause[i + 1] = operator
           /\ is_bind(output.clause[i + 2])
           /\ bind_name(output.clause[i + 2]) \in DOMAIN output.params
           /\ output.params[bind_name(output.clause[i + 2])] = value
    /\ value \notin Elems(output.clause)

\* the filter holds the service-type predicate of a queue (the predicate of
\* the data-fault flag, bound as servico_corretiva, is not one)
QueueServicePredicate(output) ==
    /\ \E name \in DOMAIN output.params \ {"servico_corretiva"} :
           /\ HasPredicate(output.clause, "SERVICO", name)
           /\ output.params[name] = "CORRETIVA DADOS"
    /\ "CORRETIVA DADOS" \notin Elems(output.clause)

\* a queue search compiled for SOMPRD
QueueCompiled(queue) ==
    /\ cf_somprd.done
    /\ cf_search_params.search_type = "Fila"
    /\ cf_search_params.fila_value = queue

\* C29 as stated: the filter of every named queue (Massiva, Despacho,
\* Triagem) holds an activity predicate and the fixed service-type
\* predicate, the values being bind parameters.
C29_EveryQueueHasBoth ==
    /\ QueueCompiled("Massiva") =>
           /\ ActivityPredicate(cf_somprd, "=", "SUSPEITA DE MASSIVA")
           /\ QueueServicePredicate(cf_somprd)
    /\ QueueCompiled("Despacho") =>
           /\ ActivityPredicate(cf_somprd, "=", "DESPACHAR")
           /\ QueueServicePredicate(cf_somprd)
    /\ QueueCompiled("Triagem") =>
           /\ ActivityPredicate(cf_somprd, "LIKE", "%TRIAGEM%")
           /\ QueueServicePredicate(cf_somprd)

\* C29: the filter of Despacho and of Triagem holds an activity predicate
\* (exact match, LIKE pattern) and the fixed service-type predicate; the
\* filter of Massiva holds the activity predicate alone; the values are bind
\* parameters.
C29_QueuePredicates ==
    /\ QueueCompiled("Massiva") =>
           /\ ActivityPredicate(cf_somprd, "=", "SUSPEITA DE MASSIVA")
           /\ ~QueueServicePredicate(cf_somprd)
    /\ QueueCompiled("Despacho") =>
           /\ ActivityPredicate(cf_somprd, "=", "DESPACHAR")
           /\ QueueServicePredicate(cf_somprd)
    /\ QueueCompiled("Triagem") =>
           /\ ActivityPredicate(cf_somprd, "LIKE", "%TRIAGEM%")
           /\ QueueServicePredicate(cf_somprd)

\* the Triagem queue compiled together with the data-fault flag
C29_Witness ==
    /\ QueueCompiled("Triagem")
    /\ cf_search_params.apenas_corretiva
    /\ QueueServicePredicate(cf_somprd)

(***************************************************************************)
(* Properties of the connections.                                          *)
(***************************************************************************)
\* positions of the get_connection calls in db_log: one per source query
QueryStarts == {i \in 1..Len(db_log) : db_log[i].op = "get_connection"}

\* the last call of the query that starts at position i
QueryEnd(i) ==
    IF \E j \in QueryStarts : j > i
    THEN (CHOOSE j \in QueryStarts :
              j > i /\ \A k \in QueryStarts : k > i => j <= k) - 1
    ELSE Len(db_log)

\* the number of the query that starts at position i, in order of start
QueryNumber(i) == Cardinality({j \in QueryStarts : j <= i})

\* the query that starts at position i has returned its result
QueryReturned(i) == QueryNumber(i) <= Len(backend)

\* release_connection calls made by the query that starts at position i
Releases(i) ==
    {j \in i..QueryEnd(i) : db_log[j].op = "release_connection"}

\* the result the n-th returned query handed to its caller
ReturnedResult(n) ==
    IF ~Get(frontend_data, "consulta_encadeada", FALSE) THEN results[n][2]
    ELSE IF n = 1
    THEN somprd_execute_search_query(processed_params, backend[1][2])
    ELSE cmprd_execute_search_query(chain.cmprd_params, backend[2][2])

\* C30: a source query that has returned its result released the connection
\* it acquired exactly once, as its last call and on the database it was
\* acquired for, whatever the path (rows, no rows, ID OS not found, an
\* exception in compilation or execution); a query whose acquisition failed
\* released nothing and returned a failure; nothing is released that was
\* not acquired.
C30_ReleasedExactlyOnce ==
    /\ \A i \in QueryStarts :
           QueryReturned(i) =>
               IF db_log[i].ok
               THEN /\ Cardinality(Releases(i)) = 1
                    /\ db_log[QueryEnd(i)].op = "release_connection"
                    /\ db_log[QueryEnd(i)].database = db_log[i].database
               ELSE /\ Releases(i) = {}
                    /\ ~ReturnedResult(QueryNumber(i)).success
    /\ \A j \in 1..Len(db_log) :
           db_log[j].op = "release_connection" =>
               \E i \in QueryStarts : i < j /\ j <= QueryEnd(i) /\ db_log[i].ok
    /\ Cardinality(QueryStarts) \in {Len(backend), Len(backend) + 1}

\* a search whose first source raised while compiling and whose second could
\* not be reached: one connection released, one never acquired
C30_Witness ==
    /\ pc = "done"
    /\ Len(backend) = 2
    /\ backend[1][2].kind = "compile_error"
    /\ backend[2][2].kind = "connect_error"
    /\ Cardinality({j \in 1..Len(db_log) :
                        db_log[j].op = "release_connection"}) = 1

============================================================================
